---- MODULE Spec2Model ----
(***************************************************************************)
(* One parse call of @ts-stack/body-parser: a parser built by one of the   *)
(* get*Parser factories is called with (req, headers); read() resolves the *)
(* content stream of the request (getContentStream), drains it with        *)
(* raw-body's getRawBody/readStream under a byte limit and an expected     *)
(* length, verifies, decodes and parses the body, and settles the returned *)
(* promise.  Stream events are emitted by the         *)
(* environment in any order; each action is one macrotask of the Node.js   *)
(* event loop (an event emission with every listener it runs and every     *)
(* promise continuation that follows before the loop is re-entered).       *)
(***************************************************************************)
EXTENDS Integers, Sequences, FiniteSets, TLC

\* ---- bounds of the model ------------------------------------------------
MaxLimit == 2                \* largest `limit` option, in bytes
MaxEvents == 4               \* events the streams emit during one call
MaxLength == MaxLimit + 1    \* largest content-length header value
MaxChunk == MaxLimit         \* largest chunk carried by one 'data' event
MaxAsked == 2                \* calls of parser.shouldParse on one request
MaxAltered == 1              \* alterations of an options object after construction
MaxText == 3                 \* longest body text given to a content parser
MaxParameters == 2           \* largest parameterLimit option
MaxSchedule == 2             \* events a request given twice delivers

\* ---- values ---------------------------------------------------------------
\* JavaScript null / undefined of a numeric field.
Null == 0 - 1

\* JavaScript NaN.
NaN == 0 - 2

\* isNaN(x): undefined and NaN are not numbers.
isNaN(x) == x \in {Null, NaN}

\* Values of the content-encoding header; "" is the absent header.
ContentEncodings == {"", "identity", "Identity", "gzip", "GZIP", "deflate", "br"}

\* A comparison of the header value as it was sent, case included.
caseSensitive(s) == s

\* String.prototype.toLowerCase on the header values above.
toLowerCase(s) ==
  CASE s = "Identity" -> "identity"
    [] s = "GZIP" -> "gzip"
    [] s = "UTF-8" -> "utf-8"
    [] OTHER -> s

\* Values of the charset parameter of a content-type header; "" is no parameter.
Charsets == {"", "UTF-8", "utf-9", "koi8-r"}

\* The `encoding` of a read that decodes no text: null.
NoEncoding == "null"

\* iconv.encodingExists(name) / iconv.getDecoder(name) finding the encoding.
encodingExists(name) == name \in {"utf-8", "koi8-r"}

\* charset.slice(0, 4)
slice4(charset) == IF charset \in {"utf-8", "utf-9"} THEN "utf-" ELSE charset

\* Values of the media type of a content-type header; "" is the absent header.
ContentTypes == {"", "application/json", "text/plain"}

EventTypes == {"data", "end", "error", "close", "aborted"}

\* The five listeners readStream attaches: stream.on(...)
AllListeners == {"aborted", "close", "data", "end", "error"}

\* http-errors objects, reduced to the fields the callers branch on.
createError(status, type, expected, received, limit) ==
  [kind |-> "error", status |-> status, type |-> type,
   expected |-> expected, received |-> received, limit |-> limit, body |-> <<Null>>]

\* The Error object a stream passes to its 'error' listeners: no status, no type.
PlainError == createError(Null, "none", Null, Null, Null)

\* createError(400, err): http-errors keeps err.status when the error has one.
createError400(err) ==
  IF err.status # Null THEN err ELSE [err EXCEPT !.status = 400]

\* createError(status, err, {body, type: err.type || type}) of read.cb:
\* http-errors takes err.status when the error has one, else `status`.
wrapError(status, err, body, type) ==
  [err EXCEPT !.status = IF @ # Null THEN @ ELSE status,
              !.type = IF @ # "none" THEN @ ELSE type,
              !.body = body]

NoArgs == [kind |-> "none"]

\* JavaScript undefined, null and false as values of any type.
Undefined == [kind |-> "undefined"]
JsNull == [kind |-> "null"]
JsFalse == [kind |-> "false"]

Value(body) == [kind |-> "value", body |-> body]
Pending == [kind |-> "pending"]

\* No options object is followed: the parser is taken as it was built.
NoOptions == [kind |-> "none"]

\* The object a content parser builds from the text `str`; {} from no text.
Object(str) == [kind |-> "object", body |-> str]
EmptyObject == Object(<<>>)

\* The errors a verify hook throws: with or without a status, with or
\* without a type tag of its own.
VerifyErrors ==
  {createError(st, ty, Null, Null, Null) :
     st \in {Null, 401}, ty \in {"none", "custom.type", "encoding.unsupported"}}

\* The SyntaxError JSON.parse throws and the error queryparse creates.
SyntaxError == createError(Null, "none", Null, Null, Null)
TooManyParameters == createError(413, "parameters.too.many", Null, Null, Null)

\* iconv.decode(buf, encoding): every byte becomes a character of the
\* named encoding (bytes are numbered from 1, characters from 100 upwards).
decode(buf, encoding) ==
  [i \in 1..Len(buf) |-> buf[i] + (IF encoding = "utf-8" THEN 100 ELSE 200)]

RECURSIVE SumLen(_)
SumLen(chunks) ==
  IF chunks = <<>> THEN 0 ELSE Len(Head(chunks)) + SumLen(Tail(chunks))

\* A concatenation that keeps the last chunk only.
ConcatLast(chunks) ==
  IF chunks = <<>> THEN <<>> ELSE chunks[Len(chunks)]

\* Buffer.concat(buffer)
RECURSIVE Concat(_)
Concat(chunks) ==
  IF chunks = <<>> THEN <<>> ELSE Head(chunks) \o Concat(Tail(chunks))

\* ---- the parser factories -------------------------------------------------
\* hasBody(headers) of type-is: a transfer-encoding header, or a
\* content-length that is a number.
hasBody(h) == h.transferEncoding \/ ~isNaN(h.contentLength)

\* typeIs(headers, types) of type-is: null without a body, false without a
\* content-type or without a match, else the matching type.
typeIs(h, types) ==
  IF ~hasBody(h) THEN "null"
  ELSE IF h.contentType = "" THEN "false"
  ELSE IF h.contentType \in types THEN h.contentType
  ELSE "false"

\* A type checker that ignores the types it was created for.
getTypeCheckerAnyType(types, h) ==
  typeIs(h, ContentTypes) \notin {"null", "false"}

\* getTypeChecker(type)(headers): Boolean(typeIs(headers, type))
getTypeChecker(types, h) ==
  typeIs(h, types) \notin {"null", "false"}

\* The `type` option: a string or an array of strings (fn = FALSE) or a
\* custom predicate of the headers (fn = TRUE, true on the types listed).
TypeOptions ==
  {[fn |-> f, types |-> t] :
     f \in BOOLEAN, t \in {{"application/json"}, {"application/json", "text/plain"}, {"", "text/plain"}}}

\* A type checking function that accepts every request.
shouldParseAnything(type, h) == TRUE

\* shouldParse = typeof type != 'function' ? getTypeChecker(type) : type
shouldParse(type, h) ==
  IF type.fn THEN h.contentType \in type.types ELSE getTypeChecker(type.types, h)

\* What a factory returns: the function called with (req, headers), which
\* checks the headers first unless withoutCheck, and its shouldParse
\* property, assigned only to the function returned for withoutCheck.
getJsonParser(type, withoutCheck) ==
  [kind |-> "json", type |-> type, withoutCheck |-> withoutCheck, shouldParse |-> withoutCheck]

getTextParser(type, withoutCheck) ==
  [kind |-> "text", type |-> type, withoutCheck |-> withoutCheck, shouldParse |-> withoutCheck]

getUrlencodedParser(type, withoutCheck) ==
  [kind |-> "urlencoded", type |-> type, withoutCheck |-> withoutCheck, shouldParse |-> withoutCheck]

getRawParser(type, withoutCheck) ==
  [kind |-> "raw", type |-> type, withoutCheck |-> withoutCheck, shouldParse |-> withoutCheck]

Parsers ==
  UNION {{getJsonParser(t, w), getTextParser(t, w), getUrlencodedParser(t, w), getRawParser(t, w)} :
           t \in TypeOptions, w \in BOOLEAN}

VARIABLES
  parser,     \* the parser function a factory returned
  headers,    \* the `headers` argument: [contentEncoding, contentLength,
              \* transferEncoding, contentType, charset]
  opts,       \* [inflate, limit, verify] the parser passes to read(), and
              \* the defaultCharset of a text parser
  req,        \* the request stream: [readable, encodingSet, flowing, piped,
              \* ownHeaders]; ownHeaders: req.headers is the `headers` argument
  inflater,   \* the zlib transform: [created, destroyed]
  stream,     \* the stream getRawBody reads: "none", "req" or "zlib"
  rs,         \* locals of readStream
  pc,         \* position of read(): start, tick, reading, dumping, settled
  promise,    \* outcome of the promise read() returns
  caught,     \* the error held by the catch block of read() while dump() runs
  reqAtCall,  \* the request stream as it was when read() was called
  history,    \* events emitted while the call was listening, in order
  late,       \* number of events emitted while nothing of the call listened
  steps,      \* the calls read.cb has made, in order: [op, arg, error] with op
              \* verify, decode or parse and error what the call threw
  asked,      \* results of the calls of parser.shouldParse(headers), in order
  options,    \* the options object of the caller, as it is now
  built,      \* the parser and what it read from the options, as constructed
  thrown,     \* the exception a call threw synchronously, NoArgs when none
  defaultValue, \* the third argument of BodyParserGroup.parse
  replay      \* a request given twice: [events, run, first, steps], the events it
              \* delivers, the call in progress and the outcome of the first call

vars == <<parser, headers, opts, req, inflater, stream, rs, pc, promise, caught, reqAtCall,
          history, late, steps, asked, options, built, thrown, defaultValue, replay>>

\* ---- getContentStream (read.ts) ----------------------------------------
getContentStream(h, inflate) ==
  LET encoding == toLowerCase(IF h.contentEncoding = "" THEN "identity" ELSE h.contentEncoding)
      unsupported == [threw |-> TRUE, stream |-> "none", pipe |-> FALSE, length |-> Null,
                      error |-> createError(415, "encoding.unsupported", Null, Null, Null)]
  IN IF inflate = FALSE /\ encoding # "identity" THEN unsupported
     ELSE CASE encoding = "deflate" ->
                 [threw |-> FALSE, stream |-> "zlib", pipe |-> TRUE, length |-> Null, error |-> NoArgs]
            [] encoding = "gzip" ->
                 [threw |-> FALSE, stream |-> "zlib", pipe |-> TRUE, length |-> Null, error |-> NoArgs]
            [] encoding = "identity" ->
                 [threw |-> FALSE, stream |-> "req", pipe |-> FALSE, length |-> h.contentLength,
                  error |-> NoArgs]
            [] OTHER -> unsupported

\* ---- getRawBody (raw-body.ts) ------------------------------------------
\* bytes.parse(opts.limit || ''): 0, null and undefined become '', which
\* bytes.parse turns into null; any other number is returned as it is.
getRawBodyLimit(limit) ==
  IF limit = 0 \/ limit = Null THEN Null ELSE limit

\* opts.length != null && !isNaN(opts.length) ? parseInt(opts.length, 10) : null
getRawBodyLength(length) ==
  IF length # Null THEN length ELSE Null

\* ---- readStream (raw-body.ts) ------------------------------------------
NullBuffer == [null |-> TRUE, chunks |-> <<>>]
EmptyBuffer == [null |-> FALSE, chunks |-> <<>>]

\* A cleanup that removes the listeners and keeps the accumulator.
cleanupListenersOnly(r) ==
  [r EXCEPT !.listeners = {}]

\* cleanup(): buffer = null, the five listeners removed.
cleanup(r) ==
  [r EXCEPT !.buffer = NullBuffer, !.listeners = {}]

\* invokeCallback(): cleanup(), halt(stream) on error, callback(...args).
invokeCallback(r, args) ==
  [cleanup(r) EXCEPT !.tick = NoArgs,
                     !.halted = (args.kind = "error"),
                     !.calls = Append(@, args)]

\* done that hands the arguments to the callback without latching the read:
\* `complete` is not set and the listeners stay attached.
doneUnlatched(r, args) ==
  IF r.sync THEN [r EXCEPT !.complete = TRUE, !.tick = args]
  ELSE [r EXCEPT !.halted = (args.kind = "error"), !.calls = Append(@, args)]

\* done(...args): mark complete, then invoke the callback, on the next tick
\* while readStream is still in its synchronous section.
done(r, args) ==
  IF r.sync THEN [r EXCEPT !.complete = TRUE, !.tick = args]
  ELSE invokeCallback([r EXCEPT !.complete = TRUE], args)

\* The pre-checks with the stream's own state tested before the sizes.
preCheckStreamFirst(length, limit, encodingSet, readable) ==
  IF encodingSet
    THEN createError(500, "stream.encoding.set", Null, Null, Null)
  ELSE IF ~readable
    THEN createError(500, "stream.not.readable", Null, Null, Null)
  ELSE IF limit # Null /\ length # Null /\ length > limit
    THEN createError(413, "entity.too.large", length, Null, limit)
  ELSE NoArgs

\* The pre-checks of readStream, in the order of the code: the first that
\* fails is the error handed to done(); NoArgs when all pass.
preCheck(length, limit, encodingSet, readable) ==
  IF limit # Null /\ length # Null /\ length > limit
    THEN createError(413, "entity.too.large", length, Null, limit)
  ELSE IF encodingSet
    THEN createError(500, "stream.encoding.set", Null, Null, Null)
  ELSE IF ~readable
    THEN createError(500, "stream.not.readable", Null, Null, Null)
  ELSE NoArgs

\* A getDecoder that finds a decoder for every name.
getDecoderAny(encoding) == NoArgs

\* getDecoder(encoding): no decoder without an encoding, the decoder of a
\* supported encoding, and for any other name the error it throws.
getDecoder(encoding) ==
  IF encoding = NoEncoding THEN NoArgs
  ELSE IF encodingExists(encoding) THEN NoArgs
  ELSE createError(415, "encoding.unsupported", Null, Null, Null)

\* readStream up to `sync = false`; `decoder` is the encoding the chunks are
\* decoded with as they arrive, NoEncoding when the read returns a Buffer.
readStream(length, limit, encodingSet, readable, encoding) ==
  LET r0 == [complete |-> FALSE, sync |-> TRUE, received |-> 0, length |-> length,
             limit |-> limit, buffer |-> NullBuffer, listeners |-> {},
             tick |-> NoArgs, halted |-> FALSE, calls |-> <<>>, decoder |-> NoEncoding]
      err == preCheck(length, limit, encodingSet, readable)
  IN IF err # NoArgs THEN done(r0, err)
     ELSE IF getDecoder(encoding) # NoArgs THEN done(r0, getDecoder(encoding))
     ELSE [r0 EXCEPT !.buffer = EmptyBuffer, !.listeners = AllListeners, !.sync = FALSE,
                     !.decoder = encoding]

\* onAborted reporting the bytes received as the expected length.
onAbortedSwapped(r) ==
  IF r.complete THEN r
  ELSE done(r, createError(400, "request.aborted", r.received, r.length, Null))

\* onAborted with its guard inverted: the abort of a running read is ignored.
onAbortedInverted(r) ==
  IF ~r.complete THEN r
  ELSE done(r, createError(400, "request.aborted", r.length, r.received, Null))

onAborted(r) ==
  IF r.complete THEN r
  ELSE done(r, createError(400, "request.aborted", r.length, r.received, Null))

\* onData with the limit left to be checked when the stream ends.
onDataUnbounded(r, chunk) ==
  IF r.complete THEN r
  ELSE [r EXCEPT !.received = @ + Len(chunk), !.buffer.chunks = Append(@, chunk)]

onData(r, chunk) ==
  IF r.complete THEN r
  ELSE LET received == r.received + Len(chunk)
           r1 == [r EXCEPT !.received = received]
       IN IF r.limit # Null /\ received > r.limit
            THEN done(r1, createError(413, "entity.too.large", Null, received, r.limit))
          ELSE [r1 EXCEPT !.buffer.chunks = Append(@, chunk)]

\* onEnd without the comparison of received against the expected length.
onEndAnyLength(r, err) ==
  IF r.complete THEN r
  ELSE IF err # NoArgs THEN done(r, err)
  ELSE done(r, Value(IF r.decoder # NoEncoding THEN decode(Concat(r.buffer.chunks), r.decoder)
                     ELSE Concat(r.buffer.chunks)))

onEnd(r, err) ==
  IF r.complete THEN r
  ELSE IF err # NoArgs THEN done(r, err)
  ELSE IF r.length # Null /\ r.received # r.length
    THEN done(r, createError(400, "request.size.invalid", r.length, r.received, Null))
  ELSE done(r, Value(IF r.decoder # NoEncoding THEN decode(Concat(r.buffer.chunks), r.decoder)
                     ELSE Concat(r.buffer.chunks)))

\* The listener readStream has attached for an event, applied to it.
handle(r, e) ==
  IF e.type \notin r.listeners THEN r
  ELSE CASE e.type = "aborted" -> onAborted(r)
         [] e.type = "close" -> cleanup(r)
         [] e.type = "data" -> onData(r, e.chunk)
         [] e.type = "end" -> onEnd(r, NoArgs)
         [] e.type = "error" -> onEnd(r, e.error)

\* ---- read (read.ts) -----------------------------------------------------
\* halt(stream): unpipe everything from the stream read, then pause it.
halt(q, s) ==
  IF s = "req" THEN [q EXCEPT !.piped = FALSE, !.flowing = FALSE] ELSE q

\* The catch block rejecting as soon as the transform is destroyed, without
\* waiting for the request to be drained.
catchNoDrain(error, q, z, s) ==
  LET q1 == IF s # "req" THEN [q EXCEPT !.piped = FALSE, !.flowing = FALSE] ELSE q
      z1 == IF s # "req" THEN [z EXCEPT !.destroyed = TRUE] ELSE z
      _error == IF error.type = "encoding.unsupported"
                  THEN createError(415, "charset.unsupported", Null, Null, Null)
                ELSE createError400(error)
  IN [pc |-> "settled", promise |-> createError400(_error), caught |-> NoArgs,
      req |-> q1, inflater |-> z1]

\* The catch block of read(): an error of type 'encoding.unsupported' is
\* replaced by 415 'charset.unsupported', any other gets status 400 unless it
\* has one; the transform is unpiped and destroyed, then dump(req) either
\* finds the request no longer readable and rejects at once, or resumes it
\* and waits.
catch(error, q, z, s) ==
  LET q1 == IF s # "req" THEN [q EXCEPT !.piped = FALSE, !.flowing = FALSE] ELSE q
      z1 == IF s # "req" THEN [z EXCEPT !.destroyed = TRUE] ELSE z
      _error == IF error.type = "encoding.unsupported"
                  THEN createError(415, "charset.unsupported", Null, Null, Null)
                ELSE createError400(error)
      err == createError400(_error)
  IN IF ~q1.readable
       THEN [pc |-> "settled", promise |-> err, caught |-> NoArgs, req |-> q1, inflater |-> z1]
     ELSE [pc |-> "dumping", promise |-> Pending, caught |-> err,
           req |-> [q1 EXCEPT !.flowing = TRUE], inflater |-> z1]

\* onFinished(req, callback) as dump() uses it: the callback runs when the
\* request ends, errors or closes; an aborted request closes with the event.
isFinished(e) == e.type \in {"end", "error", "close", "aborted"}

\* utils.getCharset(headers): the lower-cased charset parameter of the
\* content-type; '' when it has none, undefined when it does not parse.
getCharset(h) == IF h.contentType = "" THEN "" ELSE toLowerCase(h.charset)

\* contentType.parse(req): the same, read from req.headers; it throws
\* (and the caller keeps its default) when the stream has no headers.
getCharsetOfReq(q, h) == IF q.ownHeaders THEN getCharset(h) ELSE ""

\* Every parser taking the charset of the content-type as `encoding`.
encodingOfCharset(kind, h, q, defaultCharset) ==
  IF getCharset(h) = "" THEN "utf-8" ELSE getCharset(h)

\* The charset each parser hands to read() as `encoding`; the text parser
\* falls back on the defaultCharset it read from its options.
encodingOf(kind, h, q, defaultCharset) ==
  CASE kind = "json" -> IF getCharset(h) = "" THEN "utf-8" ELSE getCharset(h)
    [] kind = "text" -> IF getCharset(h) = "" THEN defaultCharset ELSE getCharset(h)
    [] kind = "urlencoded" -> IF getCharsetOfReq(q, h) = "" THEN "utf-8" ELSE getCharsetOfReq(q, h)
    [] kind = "raw" -> NoEncoding

\* The function that asserts the charset is declared `async`:
\* jsonParserWithoutCheck is, urlencodedParserWithoutCheck is not.
isAsync(kind) == kind # "urlencoded"

\* The charset assertion of jsonParserWithoutCheck and of
\* urlencodedParserWithoutCheck: the error thrown, NoArgs when it passes.
assertCharset(kind, charset) ==
  IF \/ kind = "json" /\ slice4(charset) # "utf-"
     \/ kind = "urlencoded" /\ charset # "utf-8"
    THEN createError(415, "charset.unsupported", Null, Null, Null)
  ELSE NoArgs

\* The errors the parse function of a parser can throw on a non-empty body.
ParseErrors(kind) ==
  CASE kind = "json" -> {SyntaxError}
    [] kind = "urlencoded" -> {TooManyParameters}
    [] OTHER -> {}

\* A parse function whose JSON parser hands the empty text to the decoder.
parseEmptyJson(kind, body, p) ==
  IF kind \in {"raw", "text"} THEN Value(body)
  ELSE IF Len(body) = 0 /\ kind = "urlencoded" THEN EmptyObject
  ELSE IF p # NoArgs THEN p
  ELSE Object(body)

\* A parse function without the special case of the empty body.
parseAlways(kind, body, p) ==
  IF kind \in {"raw", "text"} THEN Value(body)
  ELSE IF p # NoArgs THEN p
  ELSE Object(body)

\* parse(body) of each parser; `p` is what the content parser does with a
\* non-empty text: NoArgs to return, else the error it throws.
parse(kind, body, p) ==
  IF kind \in {"raw", "text"} THEN Value(body)
  ELSE IF Len(body) = 0 THEN EmptyObject
  ELSE IF p # NoArgs THEN p
  ELSE Object(body)

\* read.cb handing the bytes the hook has seen to the content parser undecoded.
cbVerifiedUndecoded(body, isBuffer, verify, encoding, kind, v, p) ==
  LET strOrBuffer == IF isBuffer /\ encoding # NoEncoding /\ ~verify THEN decode(body, encoding) ELSE body
      h == IF verify THEN <<[op |-> "verify", arg |-> body, error |-> v, encoding |-> encoding]>> ELSE <<>>
      r == parse(kind, strOrBuffer, p)
  IN IF verify /\ v # NoArgs
       THEN [result |-> wrapError(403, v, body, "entity.verify.failed"), steps |-> h]
     ELSE [result |-> IF r.kind = "error" THEN wrapError(400, r, strOrBuffer, "entity.parse.failed") ELSE r,
           steps |-> h \o <<[op |-> "parse", arg |-> strOrBuffer, error |-> IF r.kind = "error" THEN r ELSE NoArgs]>>]

\* read.cb with the charset decoded before the hook has seen the bytes.
cbDecodeFirst(body, isBuffer, verify, encoding, kind, v, p) ==
  LET strOrBuffer == IF isBuffer /\ encoding # NoEncoding THEN decode(body, encoding) ELSE body
      d == IF isBuffer /\ encoding # NoEncoding
             THEN <<[op |-> "decode", arg |-> body, error |-> NoArgs]>> ELSE <<>>
      h == IF verify THEN <<[op |-> "verify", arg |-> strOrBuffer, error |-> v, encoding |-> encoding]>> ELSE <<>>
      r == parse(kind, strOrBuffer, p)
  IN IF verify /\ v # NoArgs
       THEN [result |-> wrapError(403, v, body, "entity.verify.failed"), steps |-> d \o h]
     ELSE [result |-> IF r.kind = "error" THEN wrapError(400, r, strOrBuffer, "entity.parse.failed") ELSE r,
           steps |-> d \o h \o <<[op |-> "parse", arg |-> strOrBuffer, error |-> IF r.kind = "error" THEN r ELSE NoArgs]>>]

\* cb(body) of read(): verify(req, body, encoding), then iconv.decode of a
\* Buffer body when an encoding is given, then parse; `v` is what the hook
\* does: NoArgs to return, else the error it throws.
cb(body, isBuffer, verify, encoding, kind, v, p) ==
  LET strOrBuffer == IF isBuffer /\ encoding # NoEncoding THEN decode(body, encoding) ELSE body
      h == IF verify THEN <<[op |-> "verify", arg |-> body, error |-> v, encoding |-> encoding]>> ELSE <<>>
      d == IF isBuffer /\ encoding # NoEncoding
             THEN <<[op |-> "decode", arg |-> body, error |-> NoArgs]>> ELSE <<>>
      r == parse(kind, strOrBuffer, p)
  IN IF verify /\ v # NoArgs
       THEN [result |-> wrapError(403, v, body, "entity.verify.failed"), steps |-> h]
     ELSE [result |-> IF r.kind = "error" THEN wrapError(400, r, strOrBuffer, "entity.parse.failed") ELSE r,
           steps |-> h \o d \o <<[op |-> "parse", arg |-> strOrBuffer, error |-> IF r.kind = "error" THEN r ELSE NoArgs]>>]

\* A read() that hands whatever has been read to the verify hook, also when
\* getRawBody has failed.
afterRawBodyVerifyAlways(args, isBuffer, q, z, s, v, p) ==
  IF args.kind = "value"
    THEN LET c == cb(args.body, isBuffer, opts.verify,
                     encodingOf(parser.kind, headers, req, opts.defaultCharset), parser.kind, v, p)
         IN [next |-> IF c.result.kind = "error" THEN catch(c.result, q, z, s)
                      ELSE [pc |-> "settled", promise |-> c.result, caught |-> NoArgs,
                            req |-> q, inflater |-> z],
             steps |-> c.steps]
  ELSE [next |-> catch(args, q, z, s),
        steps |-> IF opts.verify
                    THEN <<[op |-> "verify", arg |-> <<>>, error |-> NoArgs, encoding |-> NoEncoding]>>
                  ELSE <<>>]

\* What follows the settling of the getRawBody promise with `args`:
\* cb(buff) on success, the catch block on a failure of either.
afterRawBody(args, isBuffer, q, z, s, v, p) ==
  IF args.kind = "value"
    THEN LET c == cb(args.body, isBuffer, opts.verify,
                     encodingOf(parser.kind, headers, req, opts.defaultCharset), parser.kind, v, p)
         IN [next |-> IF c.result.kind = "error" THEN catch(c.result, q, z, s)
                      ELSE [pc |-> "settled", promise |-> c.result, caught |-> NoArgs,
                            req |-> q, inflater |-> z],
             steps |-> c.steps]
  ELSE [next |-> catch(args, q, z, s), steps |-> <<>>]

\* What the verify hook and the content parser may do when they are called.
VerifyOutcomes == IF opts.verify THEN {NoArgs} \cup VerifyErrors ELSE {NoArgs}
ParseOutcomes == {NoArgs} \cup ParseErrors(parser.kind)

\* The rest of a macrotask in which readStream went from rs to r1 while the
\* request became q: when the callback has been invoked for the first time
\* the getRawBody promise settles and read() continues.
Continue(r1, q) ==
  IF Len(rs.calls) = 0 /\ Len(r1.calls) > 0
    THEN \E v \in VerifyOutcomes, p \in ParseOutcomes :
           LET a == afterRawBody(r1.calls[1], r1.decoder = NoEncoding,
                                 IF r1.halted THEN halt(q, stream) ELSE q,
                                 inflater, stream, v, p)
               n == a.next
           IN /\ rs' = r1
              /\ req' = n.req
              /\ inflater' = n.inflater
              /\ pc' = n.pc
              /\ promise' = n.promise
              /\ caught' = n.caught
              /\ steps' = a.steps
    ELSE /\ rs' = r1
         /\ req' = q
         /\ UNCHANGED <<inflater, pc, promise, caught, steps>>

NoRead == [complete |-> FALSE, sync |-> TRUE, received |-> 0, length |-> Null,
           limit |-> Null, buffer |-> NullBuffer, listeners |-> {},
           tick |-> NoArgs, halted |-> FALSE, calls |-> <<>>, decoder |-> NoEncoding]

\* A read through a raw parser built withoutCheck and without a verify
\* hook, of any request stream, content-encoding, content-length and limit.
Init ==
  /\ parser = getRawParser([fn |-> FALSE, types |-> {"application/json"}], TRUE)
  /\ headers \in [contentEncoding : ContentEncodings, contentLength : {Null} \cup (0..MaxLength),
                  transferEncoding : {FALSE}, contentType : {""}, charset : {""}]
  /\ opts \in [inflate : BOOLEAN, limit : 0..MaxLimit, verify : {FALSE}, defaultCharset : {"utf-8"}]
  /\ req \in [readable : BOOLEAN, encodingSet : BOOLEAN, flowing : {FALSE}, piped : {FALSE},
              ownHeaders : {TRUE}]
  /\ reqAtCall = req
  /\ inflater = [created |-> FALSE, destroyed |-> FALSE]
  /\ stream = "none"
  /\ rs = NoRead
  /\ pc = "start"
  /\ promise = Pending
  /\ caught = NoArgs
  /\ history = <<>>
  /\ late = 0
  /\ steps = <<>>
  /\ asked = <<>>
  /\ options = NoOptions
  /\ built = [parser |-> parser, opts |-> opts]
  /\ thrown = NoArgs
  /\ defaultValue = Undefined
  /\ replay = NoArgs

\* read(req, headers, parse, debug, opts) up to `await getRawBody(...)`,
\* `encoding` being opts.encoding as the parser set it.
Read(o, encoding) ==
  LET cs == getContentStream(headers, o.inflate)
      \* opts.encoding = verify ? null : encoding
      optsEncoding == IF o.verify THEN NoEncoding ELSE encoding
  IN IF cs.threw
       THEN /\ pc' = "settled"
            /\ promise' = cs.error
            /\ UNCHANGED <<req, inflater, stream, rs>>
     ELSE IF optsEncoding = NoEncoding /\ encoding # NoEncoding /\ ~encodingExists(encoding)
       THEN \* assert charset is supported: thrown with the pipe in place
            /\ pc' = "settled"
            /\ promise' = createError(415, "charset.unsupported", Null, Null, Null)
            /\ stream' = cs.stream
            /\ inflater' = [inflater EXCEPT !.created = cs.pipe]
            /\ req' = [req EXCEPT !.piped = cs.pipe, !.flowing = cs.pipe]
            /\ UNCHANGED rs
     ELSE LET r == readStream(getRawBodyLength(cs.length), getRawBodyLimit(o.limit),
                              IF cs.stream = "req" THEN req.encodingSet ELSE FALSE,
                              IF cs.stream = "req" THEN req.readable ELSE TRUE,
                              optsEncoding)
          IN /\ stream' = cs.stream
             /\ inflater' = [inflater EXCEPT !.created = cs.pipe]
             /\ req' = [req EXCEPT !.piped = cs.pipe,
                                   !.flowing = cs.pipe \/ (cs.stream = "req" /\ "data" \in r.listeners)]
             /\ rs' = r
             /\ pc' = IF r.tick # NoArgs THEN "tick" ELSE "reading"
             /\ promise' = Pending

\* The parser `p` called with (req, headers), `o` being the options its
\* factory read: unless built withoutCheck it resolves to {} for a request
\* without a body or of another type; then the charset assertion of the
\* JSON and urlencoded parsers, then read().
Call(p, o) ==
  IF ~p.withoutCheck /\ (~hasBody(headers) \/ ~shouldParse(p.type, headers))
    THEN /\ pc' = "settled"
         /\ promise' = EmptyObject
         /\ UNCHANGED <<req, inflater, stream, rs, thrown>>
  ELSE LET charset == encodingOf(p.kind, headers, req, o.defaultCharset)
       IN IF assertCharset(p.kind, charset) # NoArgs
            THEN \* thrown by an async function (JSON): a rejection;
                 \* thrown by urlencodedParserWithoutCheck: an exception
                 /\ pc' = "settled"
                 /\ IF isAsync(p.kind)
                      THEN promise' = assertCharset(p.kind, charset) /\ thrown' = thrown
                    ELSE thrown' = assertCharset(p.kind, charset) /\ promise' = promise
                 /\ UNCHANGED <<req, inflater, stream, rs>>
          ELSE Read(o, charset) /\ thrown' = thrown

\* A call of the parser a factory returned.
Parse ==
  /\ pc = "start"
  /\ Call(parser, opts)
  /\ UNCHANGED <<parser, headers, opts, caught, reqAtCall, history, late, steps, asked, options, built, defaultValue, replay>>

\* process.nextTick(invokeCallback) of a done() called in the synchronous section.
NextTick ==
  /\ pc = "tick"
  /\ Continue(invokeCallback(rs, rs.tick), req)
  /\ UNCHANGED <<parser, headers, opts, stream, reqAtCall, history, late, asked, options, built, thrown, defaultValue, replay>>

\* Something of the call listens to the streams: readStream or dump().
Listening == rs.listeners # {} \/ pc = "dumping"

\* The stream s emits event e: the listeners attached at that moment run.
Emit(s, e) ==
  /\ pc \in {"reading", "dumping", "settled"}
  /\ stream # "none"
  /\ s = "req" \/ (stream = "zlib" /\ ~inflater.destroyed)
  \* a request piped into the transform just ends, and does so once
  /\ (s = "req" /\ req.piped) => (e.type = "end" /\ req.readable)
  /\ Len(history) + late < MaxEvents
  /\ history' = IF Listening THEN Append(history, [s |-> s, e |-> e]) ELSE history
  /\ late' = IF Listening THEN late ELSE late + 1
  /\ LET q == IF s = "req" /\ e.type # "data" THEN [req EXCEPT !.readable = FALSE] ELSE req
     IN IF s = stream /\ rs.listeners # {}
          THEN Continue(handle(rs, e), q)
        ELSE IF s = "req" /\ pc = "dumping" /\ isFinished(e)
          THEN /\ pc' = "settled"
               /\ promise' = caught
               /\ caught' = NoArgs
               /\ req' = q
               /\ UNCHANGED <<rs, inflater, steps>>
        ELSE /\ req' = q
             /\ UNCHANGED <<rs, inflater, pc, promise, caught, steps>>
  /\ UNCHANGED <<parser, headers, opts, stream, reqAtCall, asked, options, built, thrown, defaultValue, replay>>

\* Bytes are numbered in the order the stream delivers them: Sent(s, h) is
\* the number of bytes stream s has delivered in the events h.
RECURSIVE Sent(_, _)
Sent(s, h) ==
  IF h = <<>> THEN 0
  ELSE (IF Head(h).s = s /\ Head(h).e.type = "data" THEN Len(Head(h).e.chunk) ELSE 0)
       + Sent(s, Tail(h))

Chunk(s, n) == [i \in 1..n |-> Sent(s, history) + i]

StreamData ==
  \E s \in {"req", "zlib"}, n \in 1..MaxChunk :
    \* a paused request delivers nothing; what a piped request delivers goes
    \* to the transform and surfaces as the transform's own 'data'
    /\ s = "req" => req.flowing
    /\ Emit(s, [type |-> "data", chunk |-> Chunk(s, n)])

StreamEnd == \E s \in {"req", "zlib"} : Emit(s, [type |-> "end"])

StreamError == \E s \in {"req", "zlib"} : Emit(s, [type |-> "error", error |-> PlainError])

StreamClose == \E s \in {"req", "zlib"} : Emit(s, [type |-> "close"])

StreamAborted == \E s \in {"req", "zlib"} : Emit(s, [type |-> "aborted"])

Next == Parse \/ NextTick \/ StreamData \/ StreamEnd \/ StreamError \/ StreamClose \/ StreamAborted

Spec == Init /\ [][Next]_vars

\* ---- stream errors of any shape --------------------------------------------
\* The errors a stream emits: a plain Error, one that carries a status of
\* its own, one that carries a type tag, one tagged 'encoding.unsupported'.
StreamErrors ==
  {PlainError, createError(503, "none", Null, Null, Null),
   createError(Null, "custom.type", Null, Null, Null),
   createError(Null, "encoding.unsupported", Null, Null, Null)}

\* The stream s emits 'error' with any of these errors.
UnderlyingError ==
  \E s \in {"req", "zlib"}, err \in StreamErrors : Emit(s, [type |-> "error", error |-> err])

\* A read of a readable request, identity-encoded or compressed.
ErrorInit ==
  /\ Init
  /\ headers.contentEncoding \in {"", "gzip"}
  /\ opts.inflate
  /\ req.readable /\ ~req.encodingSet

ErrorNext == Parse \/ NextTick \/ StreamData \/ StreamEnd \/ StreamClose \/ UnderlyingError

ErrorSpec == ErrorInit /\ [][ErrorNext]_vars

\* ---- one call of any parser ------------------------------------------------
\* The header maps of the requests: a content-length or a transfer-encoding
\* or neither, a charset only with a content-type.
RequestHeaders ==
  {h \in [contentEncoding : {"", "gzip", "br"}, contentLength : {Null, 0, 2},
          transferEncoding : BOOLEAN, contentType : {"", "application/json"},
          charset : Charsets] :
     /\ h.transferEncoding => h.contentLength = Null
     /\ h.contentType = "" => h.charset = ""}

\* A parser of any kind, built with or without a verify hook, called with a
\* request, readable or not, and any of the header maps above; the stream
\* has the headers as its own, or, for the parser that looks at them, none.
ParserInit ==
  /\ parser \in {f \in Parsers :
                   /\ f.type \in {[fn |-> FALSE, types |-> {"application/json"}],
                                  [fn |-> TRUE, types |-> {"", "text/plain"}]}
                   /\ f.withoutCheck => ~f.type.fn}
  /\ headers \in RequestHeaders
  /\ opts \in [inflate : {TRUE}, limit : {1}, verify : BOOLEAN, defaultCharset : {"utf-8"}]
  /\ req \in [readable : BOOLEAN, encodingSet : {FALSE}, flowing : {FALSE}, piped : {FALSE},
              ownHeaders : BOOLEAN]
  /\ parser.kind # "urlencoded" => req.ownHeaders
  /\ reqAtCall = req
  /\ inflater = [created |-> FALSE, destroyed |-> FALSE]
  /\ stream = "none"
  /\ rs = NoRead
  /\ pc = "start"
  /\ promise = Pending
  /\ caught = NoArgs
  /\ history = <<>>
  /\ late = 0
  /\ steps = <<>>
  /\ asked = <<>>
  /\ options = NoOptions
  /\ built = [parser |-> parser, opts |-> opts]
  /\ thrown = NoArgs
  /\ defaultValue = Undefined
  /\ replay = NoArgs

ParserSpec == ParserInit /\ [][Next]_vars

\* ---- shouldParse ----------------------------------------------------------
\* Any parser that has a shouldParse property and any header map.
TypeInit ==
  /\ parser \in {f \in Parsers : f.shouldParse}
  /\ headers \in [contentEncoding : {""}, contentLength : {Null, 0, 1},
                  transferEncoding : BOOLEAN, contentType : ContentTypes, charset : {""}]
  /\ opts = [inflate |-> TRUE, limit |-> 1, verify |-> FALSE, defaultCharset |-> "utf-8"]
  /\ req = [readable |-> TRUE, encodingSet |-> FALSE, flowing |-> FALSE, piped |-> FALSE,
            ownHeaders |-> TRUE]
  /\ reqAtCall = req
  /\ inflater = [created |-> FALSE, destroyed |-> FALSE]
  /\ stream = "none"
  /\ rs = NoRead
  /\ pc = "start"
  /\ promise = Pending
  /\ caught = NoArgs
  /\ history = <<>>
  /\ late = 0
  /\ steps = <<>>
  /\ asked = <<>>
  /\ options = NoOptions
  /\ built = [parser |-> parser, opts |-> opts]
  /\ thrown = NoArgs
  /\ defaultValue = Undefined
  /\ replay = NoArgs

\* parser.shouldParse(headers), called before the parser itself.
ShouldParse ==
  /\ pc = "start"
  /\ parser.shouldParse
  /\ Len(asked) < MaxAsked
  /\ asked' = Append(asked, shouldParse(parser.type, headers))
  /\ UNCHANGED <<parser, headers, opts, req, inflater, stream, rs, pc, promise, caught,
                 reqAtCall, history, late, steps, options, built, thrown, defaultValue, replay>>

TypeNext == ShouldParse

TypeSpec == TypeInit /\ [][TypeNext]_vars

\* ---- construction ----------------------------------------------------------
\* Values a caller gives as `verify`: nothing, false, another falsy value,
\* a truthy value that is no function, a function.
VerifyValues == {"undefined", "false", "zero", "string", "function"}

\* JavaScript truthiness of the values above.
truthy(v) == v \in {"string", "function"}

\* bytes.parse('100kb')
DefaultLimit == 102400

\* The TypeError a factory throws.
TypeError == createError(Null, "TypeError", Null, Null, Null)

\* No parser: the factory has not returned.
NoParser == [kind |-> "none"]

\* The `type` option left out.
NoType == [fn |-> FALSE, types |-> {}]

\* The default of the `type` option of each factory.
defaultType(kind) ==
  CASE kind = "json" -> [fn |-> FALSE, types |-> {"application/json"}]
    [] kind = "text" -> [fn |-> FALSE, types |-> {"text/plain"}]
    [] kind = "urlencoded" -> [fn |-> FALSE, types |-> {"application/x-www-form-urlencoded"}]
    [] kind = "raw" -> [fn |-> FALSE, types |-> {"application/octet-stream"}]

\* A query parser factory that accepts every parameterLimit.
anyParameterLimit(o) == FALSE

\* isNaN(parameterLimit) || parameterLimit < 1 of extendedparser and of
\* simpleparser, parameterLimit being 1000 when the option is undefined.
invalidParameterLimit(o) ==
  LET parameterLimit == IF o.parameterLimit # Null THEN o.parameterLimit ELSE 1000
  IN parameterLimit = NaN \/ parameterLimit < 1

\* A text parser that always falls back on utf-8.
defaultCharsetUtf8(o) == "utf-8"

\* defaultCharset = opts.defaultCharset || 'utf-8' of the text parser factory.
defaultCharsetOf(o) == IF o.defaultCharset = "" THEN "utf-8" ELSE o.defaultCharset

\* The first lines of a factory: what it reads from the options object, and
\* the TypeError of an option it refuses.
readOptions(kind, o) ==
  LET limit == IF o.limit = Null THEN DefaultLimit ELSE o.limit
      inflate == o.inflate
      type == IF o.type = NoType THEN defaultType(kind) ELSE o.type
      \* verify = opts.verify || false
      verify == IF truthy(o.verify) THEN o.verify ELSE "false"
      defaultCharset == defaultCharsetOf(o)
  IN IF verify # "false" /\ verify # "function"
       THEN [threw |-> TRUE]
     ELSE IF kind = "urlencoded" /\ invalidParameterLimit(o)
       THEN [threw |-> TRUE]
     ELSE [threw |-> FALSE, type |-> type,
           opts |-> [inflate |-> inflate, limit |-> limit, verify |-> verify = "function",
                     defaultCharset |-> defaultCharset]]

\* get*Parser(options, withoutCheck) of the factory of `kind`.
getParser(kind, type, withoutCheck) ==
  CASE kind = "json" -> getJsonParser(type, withoutCheck)
    [] kind = "text" -> getTextParser(type, withoutCheck)
    [] kind = "urlencoded" -> getUrlencodedParser(type, withoutCheck)
    [] kind = "raw" -> getRawParser(type, withoutCheck)

\* The options objects callers pass: [limit, inflate, verify, type, array,
\* parameterLimit, extended, defaultCharset]; array: `type` is an array of strings, which
\* getTypeChecker keeps as it is (a string is wrapped in a new array);
\* shared: that array is still the one the options object holds; altered:
\* the number of alterations since the parser was built.
OptionsObjects ==
  {o \in [limit : {Null, 1}, inflate : {TRUE}, verify : VerifyValues,
          type : {NoType, [fn |-> FALSE, types |-> {"application/json"}]},
          array : BOOLEAN, parameterLimit : {Null, NaN, 0, 1}, extended : BOOLEAN,
          defaultCharset : {"", "koi8-r"}, shared : BOOLEAN, altered : {0}] :
     /\ o.array => o.type # NoType
     /\ o.shared = o.array
     /\ o.extended => o.parameterLimit # Null
     /\ (o.verify \notin {"false", "function"} \/ o.parameterLimit \in {NaN, 0}) =>
          o.limit = Null /\ o.type = NoType
     /\ o.verify \notin {"false", "function"} => o.parameterLimit = Null
     /\ o.defaultCharset # "" =>
          o.limit = 1 /\ o.type = NoType /\ o.parameterLimit = Null /\ o.verify \in {"false", "function"}}

\* Before a factory is called: an options object, and the request that
\* will be given to the parser.
FactoryInit ==
  /\ options \in OptionsObjects
  /\ parser = NoParser
  /\ opts = NoOptions
  /\ built = NoOptions
  /\ thrown = NoArgs
  /\ defaultValue = Undefined
  /\ replay = NoArgs
  /\ headers \in [contentEncoding : {""}, contentLength : {1, 2}, transferEncoding : {FALSE},
                  contentType : {"application/json", "text/plain"}, charset : {"", "koi8-r"}]
  /\ headers.charset # "" => headers.contentType = "text/plain"
  /\ headers.contentLength = 2 =>
       /\ headers.contentType = "application/json"
       /\ options.verify = "false" /\ options.type = NoType /\ options.defaultCharset = ""
  /\ req = [readable |-> TRUE, encodingSet |-> FALSE, flowing |-> FALSE, piped |-> FALSE,
            ownHeaders |-> TRUE]
  /\ reqAtCall = req
  /\ inflater = [created |-> FALSE, destroyed |-> FALSE]
  /\ stream = "none"
  /\ rs = NoRead
  /\ pc = "new"
  /\ promise = Pending
  /\ caught = NoArgs
  /\ history = <<>>
  /\ late = 0
  /\ steps = <<>>
  /\ asked = <<>>

\* A factory called with the options object.
Construct ==
  /\ pc = "new"
  /\ \E kind \in {"json", "text", "urlencoded", "raw"}, withoutCheck \in BOOLEAN :
       LET r == readOptions(kind, options)
       IN IF r.threw
            THEN /\ thrown' = TypeError
                 /\ pc' = "thrown"
                 /\ built' = [kind |-> kind]
                 /\ UNCHANGED <<parser, opts>>
          ELSE /\ parser' = getParser(kind, r.type, withoutCheck)
               /\ opts' = r.opts
               /\ built' = [parser |-> parser', opts |-> opts']
               /\ pc' = "start"
               /\ thrown' = NoArgs
  /\ UNCHANGED <<headers, req, inflater, stream, rs, promise, caught, reqAtCall, history,
                 late, steps, asked, options, defaultValue, replay>>

\* The caller alters the options object after the factory has returned: a
\* property is reassigned, or the `type` array is changed in place.
AlterOptions ==
  /\ pc \notin {"new", "thrown"}
  /\ options.altered < MaxAltered
  /\ \/ /\ \/ options' = [options EXCEPT !.limit = MaxLimit, !.inflate = ~@,
                                         !.verify = IF @ = "function" THEN "false" ELSE "function",
                                         !.parameterLimit = 0, !.extended = ~@,
                                         !.defaultCharset = "utf-9", !.altered = @ + 1]
           \/ options' = [options EXCEPT !.type = [fn |-> FALSE, types |-> {"text/plain"}],
                                         !.array = FALSE, !.shared = FALSE, !.altered = @ + 1]
        /\ UNCHANGED parser
     \/ /\ options.array
        /\ options' = [options EXCEPT !.type.types = @ \cup {"text/plain"}, !.altered = @ + 1]
        \* the array of the caller is the array checkType looks at
        /\ parser' = IF options.shared
                       THEN [parser EXCEPT !.type.types = @ \cup {"text/plain"}]
                     ELSE parser
  /\ UNCHANGED <<headers, opts, req, inflater, stream, rs, pc, promise, caught, reqAtCall,
                 history, late, steps, asked, built, thrown, defaultValue, replay>>

\* A factory is called, then the parser; the request is delivered in chunks
\* and ends.
FactoryNext == Construct \/ Parse \/ NextTick \/ StreamData \/ StreamEnd

FactorySpec == FactoryInit /\ [][FactoryNext]_vars

\* The same with an options object the factories accept, which the caller
\* alters at any time after the construction.
OptionsInit ==
  /\ FactoryInit
  /\ options.verify \in {"false", "function"}
  /\ options.parameterLimit = Null
  /\ options.limit # Null
  /\ options.defaultCharset = "" /\ headers.charset = ""
  /\ options.verify = "function" => headers.contentType = "application/json"

OptionsNext == AlterOptions \/ FactoryNext

OptionsSpec == OptionsInit /\ [][OptionsNext]_vars

\* ---- BodyParserGroup (body-parser-group.ts) -------------------------------
\* The order in which parse() consults the parsers.
GroupOrderTextFirst == <<"text", "json", "urlencoded", "raw">>

GroupOrder == <<"json", "text", "urlencoded", "raw">>

\* The options entry the constructor hands to the factory of `kind`.
optionsEntry(o, kind) == o.jsonOptions

\* The options objects of a BodyParserOptions: valid ones, with or without
\* a limit and a type of their own.
GroupOptionsObjects ==
  {o \in OptionsObjects :
     /\ o.verify = "false" /\ o.parameterLimit = Null /\ ~o.extended
     /\ o.defaultCharset = "" /\ ~o.array}

\* The type option a group is given: JSON and plain text alike.
GroupType == [fn |-> FALSE, types |-> {"application/json", "text/plain"}]

\* The third argument of parse(): absent, null or an object.
DefaultValues == {Undefined, JsNull, EmptyObject}

\* Media types of the requests a group is given: the default type of each
\* parser and one that none of them parses.
GroupContentTypes ==
  {"application/json", "text/plain", "application/x-www-form-urlencoded",
   "application/octet-stream", "image/png"}

\* Before `new BodyParserGroup(options)`: the options, and the request and
\* the default value parse() will be given.
GroupInit ==
  /\ options \in [jsonOptions : GroupOptionsObjects \cup
                                  {[o EXCEPT !.type = GroupType] : o \in GroupOptionsObjects},
                  textOptions : {o \in GroupOptionsObjects : o.limit = Null},
                  urlencodedOptions : {o \in GroupOptionsObjects : o.limit = Null /\ o.type = NoType},
                  rawOptions : {o \in GroupOptionsObjects : o.type = NoType}]
  /\ defaultValue \in DefaultValues
  /\ replay = NoArgs
  /\ parser = NoParser
  /\ opts = NoOptions
  /\ built = NoOptions
  /\ thrown = NoArgs
  /\ headers \in [contentEncoding : {""}, contentLength : {Null, 2}, transferEncoding : {FALSE},
                  contentType : GroupContentTypes, charset : {""}]
  /\ req = [readable |-> TRUE, encodingSet |-> FALSE, flowing |-> FALSE, piped |-> FALSE,
            ownHeaders |-> TRUE]
  /\ reqAtCall = req
  /\ inflater = [created |-> FALSE, destroyed |-> FALSE]
  /\ stream = "none"
  /\ rs = NoRead
  /\ pc = "new"
  /\ promise = Pending
  /\ caught = NoArgs
  /\ history = <<>>
  /\ late = 0
  /\ steps = <<>>
  /\ asked = <<>>

\* constructor(bodyParsersOptions): the four parsers, each built withoutCheck.
NewGroup ==
  /\ pc = "new"
  /\ LET r == [kind \in {"json", "text", "urlencoded", "raw"} |->
                 readOptions(kind, optionsEntry(options, kind))]
     IN IF \E kind \in DOMAIN r : r[kind].threw
          THEN /\ thrown' = TypeError
               /\ pc' = "thrown"
               /\ built' = [kind |-> "group"]
          ELSE /\ built' = [kind \in DOMAIN r |->
                              [parser |-> getParser(kind, r[kind].type, TRUE), opts |-> r[kind].opts]]
               /\ pc' = "start"
               /\ thrown' = NoArgs
  /\ UNCHANGED <<parser, opts, headers, req, inflater, stream, rs, promise, caught, reqAtCall,
                 history, late, steps, asked, options, defaultValue, replay>>

\* parse(req, headers, defaultValue): null or the default value without a
\* body; else the first parser of the order whose shouldParse(headers) is
\* true is called; false or the default value when there is none.
GroupParse ==
  /\ pc = "start"
  /\ IF ~hasBody(headers)
       THEN /\ pc' = "settled"
            /\ promise' = IF defaultValue # Undefined THEN defaultValue ELSE JsNull
            /\ UNCHANGED <<parser, opts, req, inflater, stream, rs, thrown, asked>>
     ELSE LET matches == {i \in 1..Len(GroupOrder) :
                            shouldParse(built[GroupOrder[i]].parser.type, headers)}
          IN IF matches = {}
               THEN /\ pc' = "settled"
                    /\ promise' = IF defaultValue # Undefined THEN defaultValue ELSE JsFalse
                    /\ asked' = [i \in 1..Len(GroupOrder) |-> [kind |-> GroupOrder[i], answer |-> FALSE]]
                    /\ UNCHANGED <<parser, opts, req, inflater, stream, rs, thrown>>
             ELSE LET first == CHOOSE i \in matches : \A k \in matches : i <= k
                      selected == built[GroupOrder[first]]
                  IN /\ asked' = [i \in 1..first |-> [kind |-> GroupOrder[i], answer |-> i = first]]
                     /\ parser' = selected.parser
                     /\ opts' = selected.opts
                     /\ Call(selected.parser, selected.opts)
  /\ UNCHANGED <<headers, caught, reqAtCall, history, late, steps, options, built, defaultValue, replay>>

GroupNext == NewGroup \/ GroupParse \/ NextTick \/ StreamData \/ StreamEnd

GroupSpec == GroupInit /\ [][GroupNext]_vars

\* ---- content parsers -------------------------------------------------------
\* Character codes of the texts: space, line feed, '{', '[', 'a', '&', '#'.
Space == 32
LineFeed == 10
Brace == 123
Bracket == 91
Letter == 97
Ampersand == 38
JSON_SYNTAX_CHAR == 35

\* The characters FIRST_CHAR_REGEXP skips: space, tab, line feed, carriage return.
Whitespace == {32, 9, 10, 13}

\* The body texts: every string of the characters above up to MaxText long.
Texts == UNION {[1..n -> {Space, LineFeed, Brace, Bracket, Letter, Ampersand}] : n \in 0..MaxText}

\* What JSON.parse(body, reviver) does with a text: it returns (NoArgs),
\* it throws a SyntaxError, or the reviver throws an error of its own, with
\* or without status and type properties.
DecoderOutcomes ==
  {NoArgs, SyntaxError, createError(422, "custom.type", Null, Null, Null),
   createError(Null, "encoding.unsupported", Null, Null, Null)}

\* firstchar(str): the first character that is no whitespace, undefined
\* (Null) when there is none.
RECURSIVE firstchar(_)
firstchar(str) ==
  IF str = <<>> THEN Null
  ELSE IF Head(str) \in Whitespace THEN firstchar(Tail(str))
  ELSE Head(str)

\* str.indexOf(char), counted from 1; 0 when the character is not there.
RECURSIVE indexOf(_, _)
indexOf(str, char) ==
  IF str = <<>> THEN 0
  ELSE IF Head(str) = char THEN 1
  ELSE IF indexOf(Tail(str), char) = 0 THEN 0
  ELSE 1 + indexOf(Tail(str), char)

\* An error handed on with the properties it was thrown with.
keepProperties(error) == error

\* normalizeJsonSyntaxError(error, obj): every own property of the error
\* but stack and message is deleted.
normalizeJsonSyntaxError(error) == [error EXCEPT !.status = Null, !.type = "none"]

\* createStrictSyntaxError(str, char): the text up to the offending
\* character, then '#' for the rest, is given to JSON.parse to get the
\* SyntaxError of that position.
createStrictSyntaxError(str, char) ==
  LET index == indexOf(str, char)
      partial == IF index = 0 THEN <<>>
                 ELSE [i \in 1..Len(str) |-> IF i < index THEN str[i] ELSE JSON_SYNTAX_CHAR]
  IN [error |-> normalizeJsonSyntaxError(SyntaxError),
      calls |-> <<[op |-> "JSON.parse", arg |-> partial, error |-> SyntaxError]>>]

\* A JSON parse function that never looks at the first character.
jsonNeverStrict(strict, body, d) ==
  [error |-> IF d # NoArgs THEN normalizeJsonSyntaxError(d) ELSE NoArgs,
   calls |-> <<[op |-> "JSON.parse(reviver)", arg |-> body, error |-> d]>>]

\* parse(body) of getJsonParser for a text that is not empty: the strict
\* test of the first character, then JSON.parse(body, reviver) doing `d`.
json(strict, body, d) ==
  IF strict /\ firstchar(body) \notin {Brace, Bracket}
    THEN createStrictSyntaxError(body, firstchar(body))
  ELSE [error |-> IF d # NoArgs THEN normalizeJsonSyntaxError(d) ELSE NoArgs,
        calls |-> <<[op |-> "JSON.parse(reviver)", arg |-> body, error |-> d]>>]

\* A count of the parameters that stops one parameter later.
RECURSIVE parameterCountLate(_, _)
parameterCountLate(body, limit) ==
  IF body = <<>> THEN 0
  ELSE LET rest == parameterCountLate(Tail(body), limit)
       IN IF rest = Null THEN Null
          ELSE IF Head(body) # Ampersand THEN rest
          ELSE IF rest + 1 > limit THEN Null
          ELSE rest + 1

\* parameterCount(body, limit): the number of '&' in the body, undefined
\* (Null) as soon as it reaches the limit.
RECURSIVE parameterCount(_, _)
parameterCount(body, limit) ==
  IF body = <<>> THEN 0
  ELSE LET rest == parameterCount(Tail(body), limit)
       IN IF rest = Null THEN Null
          ELSE IF Head(body) # Ampersand THEN rest
          ELSE IF rest + 1 = limit THEN Null
          ELSE rest + 1

\* queryparse(body) of extendedparser and of simpleparser: the count of the
\* parameters, then qs.parse or querystring.parse.
queryparse(extended, parameterLimit, body) ==
  IF parameterCount(body, parameterLimit) = Null
    THEN [error |-> TooManyParameters, calls |-> <<>>]
  ELSE [error |-> NoArgs,
        calls |-> <<[op |-> IF extended THEN "qs.parse" ELSE "querystring.parse",
                     arg |-> body, error |-> NoArgs]>>]

\* The content parser of a JSON or urlencoded parser built with `o`.
contentParser(kind, o, body, d) ==
  IF kind = "json" THEN json(o.strict, body, d)
  ELSE queryparse(o.extended, o.parameterLimit, body)

\* A body text has been read, of a request that has ended; the parser was
\* built with any strict flag, query parser and parameterLimit.
ContentInit ==
  /\ parser \in {getJsonParser(defaultType("json"), TRUE),
                 getUrlencodedParser(defaultType("urlencoded"), TRUE)}
  /\ opts \in [inflate : {TRUE}, limit : {DefaultLimit}, verify : {FALSE},
               defaultCharset : {"utf-8"}, strict : BOOLEAN,
               extended : BOOLEAN, parameterLimit : 1..MaxParameters]
  /\ parser.kind = "json" => ~opts.extended /\ opts.parameterLimit = 1
  /\ parser.kind = "urlencoded" => opts.strict
  /\ headers = [contentEncoding |-> "", contentLength |-> Null, transferEncoding |-> TRUE,
                contentType |-> "application/json", charset |-> ""]
  /\ req = [readable |-> FALSE, encodingSet |-> FALSE, flowing |-> TRUE, piped |-> FALSE,
            ownHeaders |-> TRUE]
  /\ reqAtCall = req
  /\ inflater = [created |-> FALSE, destroyed |-> FALSE]
  /\ stream = "req"
  /\ rs = NoRead
  /\ pc = "body"
  /\ promise = Pending
  /\ caught = NoArgs
  /\ history = <<>>
  /\ late = 0
  /\ steps = <<>>
  /\ asked = <<>>
  /\ options = NoOptions
  /\ built = [parser |-> parser, opts |-> opts]
  /\ thrown = NoArgs
  /\ defaultValue = Undefined
  /\ replay = NoArgs

\* cb(body) for a body text: parse(body), the calls it makes, and the
\* catch block of read() when it throws.
ParseText ==
  /\ pc = "body"
  /\ \E body \in Texts, d \in DecoderOutcomes :
       LET cp == contentParser(parser.kind, opts, body, d)
           a == afterRawBody(Value(body), FALSE, req, inflater, stream, NoArgs, cp.error)
       IN /\ pc' = a.next.pc
          /\ promise' = a.next.promise
          /\ caught' = a.next.caught
          /\ req' = a.next.req
          /\ inflater' = a.next.inflater
          /\ steps' = a.steps \o (IF Len(body) = 0 THEN <<>> ELSE cp.calls)
  /\ UNCHANGED <<parser, headers, opts, stream, rs, reqAtCall, history, late, asked, options,
                 built, thrown, defaultValue, replay>>

ContentNext == ParseText

ContentSpec == ContentInit /\ [][ContentNext]_vars

\* ---- properties -----------------------------------------------------------
\* The events stream s has emitted, in order.
RECURSIVE EventsOf(_, _)
EventsOf(s, h) ==
  IF h = <<>> THEN <<>>
  ELSE (IF Head(h).s = s THEN <<Head(h).e>> ELSE <<>>) \o EventsOf(s, Tail(h))

\* A well-formed delivery: chunks, then 'end', and nothing else.
DataThenEnd(h) ==
  /\ Len(h) >= 1
  /\ h[Len(h)].type = "end"
  /\ \A i \in 1..(Len(h) - 1) : h[i].type = "data"

\* read() was handed a readable request with no text decoder attached.
RawReadable == reqAtCall.readable /\ ~reqAtCall.encodingSet

\* The request has delivered a whole identity-encoded body and nothing else.
IdentityBodyDelivered ==
  /\ stream = "req"
  /\ RawReadable
  /\ DataThenEnd(EventsOf("req", history))

\* The failure read() reports or is about to report once dump() is over.
Result == IF thrown # NoArgs THEN thrown ELSE IF pc = "dumping" THEN caught ELSE promise

IsError(x, status, type) == x.kind = "error" /\ x.status = status /\ x.type = type

\* C1: for every limit L >= 0 and every well-formed identity-encoded body of
\* S bytes in any chunking (content-length absent or equal to S), the read
\* fails with EntityTooLarge (413, 'entity.too.large') when S > L and
\* succeeds when S <= L.
C1_LimitDecidesOutcome ==
  (/\ pc = "settled"
   /\ IdentityBodyDelivered
   /\ headers.contentLength \in {Null, Sent("req", history)})
  => IF Sent("req", history) > opts.limit
       THEN IsError(promise, 413, "entity.too.large")
     ELSE promise.kind = "value"

\* The same statement for the limits that are not zero.
C1_NonZeroLimit == opts.limit # 0 => C1_LimitDecidesOutcome

\* The declared length D and the delivered byte count A of an identity body.
DeclaredAndDelivered ==
  /\ pc = "settled"
  /\ IdentityBodyDelivered
  /\ headers.contentLength # Null
  /\ Sent("req", history) <= opts.limit

SizeInvalidIffMismatch ==
  IF Sent("req", history) # headers.contentLength
    THEN promise = createError(400, "request.size.invalid", headers.contentLength,
                               Sent("req", history), Null)
  ELSE ~(promise.kind = "error" /\ promise.type = "request.size.invalid")

\* C2 as stated: for every declared length D and every delivered byte count
\* A <= limit, a stream ending with A # D fails with RequestSizeInvalid
\* (400, expected D, received A) and one ending with A = D does not.
C2_AnyDeclaredLength == DeclaredAndDelivered => SizeInvalidIffMismatch

\* C2 amended: the same, for declared lengths that do not exceed the limit
\* (a declared length above the limit is rejected with EntityTooLarge before
\* the stream is read).
C2_DeclaredWithinLimit ==
  (DeclaredAndDelivered /\ headers.contentLength <= opts.limit) => SizeInvalidIffMismatch

C2_Witness ==
  /\ DeclaredAndDelivered
  /\ headers.contentLength <= opts.limit
  /\ Sent("req", history) > 0
  /\ Sent("req", history) # headers.contentLength
  /\ IsError(promise, 400, "request.size.invalid")

\* C3: while a read has a limit, the accumulator never holds more than
\* `limit` bytes; the chunk taking the running total above the limit is not
\* kept and EntityTooLarge (with that total and the limit) has been raised
\* by the time its handler returns, before any 'end'.
C3_BoundedAccumulator ==
  rs.limit # Null =>
    /\ SumLen(rs.buffer.chunks) <= rs.limit
    /\ rs.received > rs.limit =>
         /\ rs.buffer = NullBuffer
         /\ rs.calls = <<createError(413, "entity.too.large", Null, rs.received, rs.limit)>>

C3_Witness ==
  /\ rs.limit # Null
  /\ rs.received > rs.limit
  /\ Len(history) >= 2
  /\ \A i \in 1..Len(history) : history[i].e.type = "data"

\* C4: whatever events the stream emits, in whatever order, duplicated or
\* after a terminal one, one read invokes its callback at most once, and the
\* promise has an outcome only through that one invocation.
C4_AtMostOneOutcome ==
  /\ Len(rs.calls) <= 1
  /\ (promise.kind # "pending" /\ stream # "none") => Len(rs.calls) = 1

\* The callback has been invoked on a terminal event and the stream read
\* has emitted further events since.
C4_Witness ==
  /\ Len(rs.calls) = 1
  /\ ~rs.sync
  /\ stream = "req"
  /\ history[Len(history)].e.type \in {"end", "error", "aborted"}
  /\ late >= 2

TerminalTypes == {"end", "error", "aborted", "close"}

\* Stream s has emitted one of its terminal events.
Terminated(s) ==
  \E i \in 1..Len(history) : history[i].s = s /\ history[i].e.type \in TerminalTypes

\* The first event of stream s that is not 'data'; 0 when there is none.
FirstTerminal(s) ==
  LET I == {i \in 1..Len(history) : history[i].s = s /\ history[i].e.type # "data"}
  IN IF I = {} THEN 0 ELSE CHOOSE i \in I : \A j \in I : i <= j

\* Every stream of the call has terminated and no tick is pending.
StreamsTerminated ==
  /\ stream # "none"
  /\ pc # "tick"
  /\ Terminated("req")
  /\ stream = "zlib" => (Terminated("zlib") \/ inflater.destroyed)

\* C5: once the stream has terminated (end, error, aborted or close) the
\* promise read() returned does not stay pending.
C5_SettlesAfterTermination == StreamsTerminated => promise.kind # "pending"

\* The same statement for the reads whose stream does not emit 'close' before
\* any other terminal event.
C5_UnlessClosedFirst ==
  (/\ StreamsTerminated
   /\ FirstTerminal(stream) # 0 => history[FirstTerminal(stream)].e.type # "close")
  => promise.kind # "pending"

\* The outcome the events h of the stream read determine, taken in arrival
\* order from n bytes received and `body` accumulated: the first of limit
\* exceeded, aborted, end and error; NoArgs when none has been reached.
RECURSIVE Decide(_, _, _, _, _)
Decide(h, n, body, length, limit) ==
  IF h = <<>> THEN NoArgs
  ELSE LET e == Head(h)
       IN CASE e.type = "data" ->
                 IF limit # Null /\ n + Len(e.chunk) > limit
                   THEN createError(413, "entity.too.large", Null, n + Len(e.chunk), limit)
                 ELSE Decide(Tail(h), n + Len(e.chunk), body \o e.chunk, length, limit)
            [] e.type = "aborted" -> createError(400, "request.aborted", length, n, Null)
            [] e.type = "error" -> e.error
            [] e.type = "end" ->
                 IF length # Null /\ n # length
                   THEN createError(400, "request.size.invalid", length, n, Null)
                 ELSE Value(body)
            [] OTHER -> Decide(Tail(h), n, body, length, limit)

Decided == Decide(EventsOf(stream, history), 0, <<>>, rs.length, rs.limit)

ClosedFirst ==
  FirstTerminal(stream) # 0 /\ history[FirstTerminal(stream)].e.type = "close"

\* The bytes the stream read delivered up to its first terminal condition.
ReceivedWhenDecided ==
  LET h == EventsOf(stream, history)
      k == CHOOSE n \in 0..Len(h) :
             /\ Decide(SubSeq(h, 1, n), 0, <<>>, rs.length, rs.limit) # NoArgs
             /\ \A m \in 0..(n - 1) : Decide(SubSeq(h, 1, m), 0, <<>>, rs.length, rs.limit) = NoArgs
  IN Sent(stream, [i \in 1..k |-> [s |-> stream, e |-> h[i]]])

\* C6: events are handled in arrival order, the outcome is that of the first
\* terminal condition reached (limit exceeded, aborted, end, error), and no
\* event delivered after it changes the outcome or the accumulated state.
C6_FirstTerminalWins ==
  ~rs.sync =>
    /\ Len(rs.calls) = 1 =>
         /\ rs.calls[1] = Decided
         /\ Result = IF Decided.kind = "value" THEN Decided
                     ELSE [Decided EXCEPT !.status = IF @ = Null THEN 400 ELSE @]
         /\ rs.received = ReceivedWhenDecided
         /\ rs.buffer = NullBuffer
    /\ (Decided # NoArgs /\ ~ClosedFirst) => Len(rs.calls) = 1

\* A terminal condition was followed by a different terminal event.
C6_Witness ==
  /\ ~rs.sync
  /\ Len(rs.calls) = 1
  /\ stream = "req"
  /\ Len(history) = 2
  /\ history[1].e.type = "data"
  /\ history[2].e.type = "aborted"
  /\ late >= 1

\* The conditions the pre-checks of a read of the request test.
DecoderAttached == stream = "req" /\ reqAtCall.encodingSet
NotReadable == stream = "req" /\ ~reqAtCall.readable
LengthOverLimit == rs.length # Null /\ rs.limit # Null /\ rs.length > rs.limit

\* What readStream has handed to done(): pending on the tick, or delivered.
Reported == IF pc = "tick" THEN rs.tick ELSE IF rs.calls = <<>> THEN NoArgs ELSE rs.calls[1]

\* The read reports the failure (status, type) and never subscribed.
RejectedBeforeSubscribing(status, type) ==
  /\ IsError(Reported, status, type)
  /\ rs.sync /\ rs.listeners = {}
  /\ pc # "tick" => IsError(Result, status, type)

\* C7 as stated: decoder attached, else not readable, else length > limit.
C7_DecoderFirst ==
  stream # "none" =>
    IF DecoderAttached THEN RejectedBeforeSubscribing(500, "stream.encoding.set")
    ELSE IF NotReadable THEN RejectedBeforeSubscribing(500, "stream.not.readable")
    ELSE IF LengthOverLimit THEN RejectedBeforeSubscribing(413, "entity.too.large")
    ELSE ~rs.sync

\* C7 amended: before subscribing to any event the read rejects a known
\* length above a known limit with EntityTooLarge (413); otherwise a stream
\* with a text decoder attached with StreamEncodingAlreadySet (500);
\* otherwise a non-readable stream with StreamNotReadable (500); when
\* several conditions hold the earliest in this order is reported, and when
\* none holds the read subscribes.
C7_LengthFirst ==
  stream # "none" =>
    IF LengthOverLimit THEN RejectedBeforeSubscribing(413, "entity.too.large")
    ELSE IF DecoderAttached THEN RejectedBeforeSubscribing(500, "stream.encoding.set")
    ELSE IF NotReadable THEN RejectedBeforeSubscribing(500, "stream.not.readable")
    ELSE ~rs.sync

\* All three conditions hold and the failure has been delivered.
C7_Witness ==
  /\ DecoderAttached /\ NotReadable /\ LengthOverLimit
  /\ Len(rs.calls) = 1
  /\ IsError(promise, 413, "entity.too.large")

\* The stream read emitted 'aborted' as its first event other than 'data',
\* before the bytes delivered had exceeded the limit.
AbortedWhileReading ==
  /\ ~rs.sync
  /\ FirstTerminal(stream) # 0
  /\ history[FirstTerminal(stream)].e.type = "aborted"
  /\ rs.limit # Null => Sent(stream, SubSeq(history, 1, FirstTerminal(stream) - 1)) <= rs.limit

\* C8: an 'aborted' emitted before the read has completed makes the read fail
\* with RequestAborted (400, 'request.aborted'), expected = the declared
\* length, received = the bytes delivered before the abort.
C8_AbortedReported ==
  AbortedWhileReading =>
    LET error == createError(400, "request.aborted",
                             IF stream = "req" THEN headers.contentLength ELSE Null,
                             Sent(stream, SubSeq(history, 1, FirstTerminal(stream) - 1)),
                             Null)
    IN rs.calls = <<error>> /\ Result = error

C8_Witness ==
  /\ AbortedWhileReading
  /\ IsError(promise, 400, "request.aborted")
  /\ promise.received > 0
  /\ promise.expected > promise.received

\* The content-encoding names, whatever their case; "" is the absent header.
IdentityNames == {"", "identity", "Identity"}
CompressedNames == {"gzip", "GZIP", "deflate"}

\* The request has not been touched: nothing piped, not flowing, no listener
\* attached, no event taken from it.
RequestUntouched ==
  /\ req = reqAtCall
  /\ ~inflater.created
  /\ rs = NoRead
  /\ history = <<>> /\ late = 0

\* C9: for every content-encoding value (case-insensitive, absent meaning
\* identity) and inflate flag, once read() has been called the request is
\* read unchanged iff the encoding is identity, a decompression transform is
\* piped after it iff the encoding is gzip or deflate and inflate is true,
\* and otherwise the parse has failed with EncodingUnsupported (415) with no
\* pipe established and no byte of the request read.
C9_EncodingResolved ==
  pc # "start" =>
    /\ stream = "req" <=> headers.contentEncoding \in IdentityNames
    /\ inflater.created <=> (headers.contentEncoding \in CompressedNames /\ opts.inflate)
    /\ stream = "zlib" <=> inflater.created
    /\ (pc = "reading" /\ history = <<>> /\ stream = "zlib") => req.piped
    /\ stream = "none" =>
         /\ IsError(promise, 415, "encoding.unsupported")
         /\ RequestUntouched

\* A body sent with an upper-case gzip header has been inflated and read.
C9_Witness ==
  /\ headers.contentEncoding = "GZIP"
  /\ stream = "zlib"
  /\ promise.kind = "value"
  /\ Len(promise.body) > 0

\* The transform has delivered nothing but chunks so far.
InflatingOnlyData ==
  /\ stream = "zlib"
  /\ \A i \in 1..Len(history) : history[i].s = "zlib" => history[i].e.type = "data"

\* C10: when a gzip or deflate body is inflated the declared content-length
\* is not the expected length (no RequestSizeInvalid, no EntityTooLarge from
\* the length), and the limit is enforced on the decompressed bytes: as soon
\* as they exceed it the parse fails with 413.
C10_LimitOnInflatedBytes ==
  stream = "zlib" =>
    /\ rs.length = Null
    /\ ~(Reported.kind = "error" /\ Reported.type = "request.size.invalid")
    /\ ~(Reported.kind = "error" /\ Reported.type = "entity.too.large" /\ Reported.expected # Null)
    /\ (InflatingOnlyData /\ Sent("zlib", history) > opts.limit) =>
         /\ IsError(Result, 413, "entity.too.large")
         /\ Result.received = Sent("zlib", history)

\* The same statement for the limits that are not zero.
C10_NonZeroLimit == opts.limit # 0 => C10_LimitOnInflatedBytes

\* ---- properties of a parse call ----------------------------------------
\* The read delivered the whole body: the stream read was read to its end.
ReadToItsEnd == Len(rs.calls) = 1 /\ rs.calls[1].kind = "value"

\* read() threw its own 'charset.unsupported' after getContentStream and
\* before getRawBody: the charset is not one iconv knows and the read was
\* to return a Buffer.
CharsetThrownByRead ==
  /\ stream # "none"
  /\ rs = NoRead
  /\ IsError(promise, 415, "charset.unsupported")

\* C11: once the parse call has settled, with a value or with any failure
\* (those raised before the body read starts included), a decompression
\* transform created for the call has been read to its end or has been
\* unpiped from the request and destroyed.
C11_TransformNeverDangling ==
  (pc = "settled" /\ inflater.created) =>
    \/ ReadToItsEnd
    \/ inflater.destroyed /\ ~req.piped

\* The same statement for the calls in which read() does not throw
\* 'charset.unsupported' itself.
C11_UnlessCharsetThrown ==
  ~CharsetThrownByRead => C11_TransformNeverDangling

\* The transform, when one was interposed, is unpiped and destroyed.
TransformDetached == stream = "zlib" => (inflater.destroyed /\ ~req.piped)

\* C12: on every failure reported once the body read has started, the
\* request is unpiped and the transform destroyed (when one was interposed),
\* then the request is resumed and drained until it has finished (or it is
\* already non-readable), and only then is the promise rejected.
C12_DrainedBeforeRejected ==
  rs # NoRead =>
    /\ pc = "dumping" =>
         /\ promise = Pending
         /\ TransformDetached
         /\ req.flowing /\ req.readable
    /\ (pc = "settled" /\ promise.kind = "error") =>
         /\ TransformDetached
         /\ ~req.readable

\* The inflated body exceeded the limit while the request was still being
\* sent; the rejection came when the request had ended.
C12_Witness ==
  /\ stream = "zlib"
  /\ pc = "settled"
  /\ IsError(promise, 413, "entity.too.large")
  /\ Len(history) >= 2
  /\ history[Len(history)] = [s |-> "req", e |-> [type |-> "end"]]
  /\ history[Len(history) - 1].e.type = "data"

\* The bytes the stream read has delivered to the read, in arrival order.
RawBytes == [i \in 1..rs.received |-> i]

\* The operations read.cb has performed, in order.
Ops == [i \in 1..Len(steps) |-> steps[i].op]

\* C13: with a verify hook configured, the hook is invoked on the raw
\* accumulated bytes strictly before they are charset-decoded and before the
\* content parser runs; when the hook throws, neither the decode nor the
\* content parser is executed.
C13_VerifyFirst ==
  (opts.verify /\ steps # <<>>) =>
    /\ steps[1].op = "verify"
    /\ steps[1].arg = RawBytes
    /\ \A i \in 2..Len(steps) :
         /\ steps[i].op \in {"decode", "parse"}
         /\ steps[i].op = "decode" => steps[i].arg = RawBytes
    /\ steps[1].error # NoArgs => Len(steps) = 1

\* The hook has seen a body that was then decoded and parsed.
C13_Witness ==
  /\ opts.verify
  /\ Ops = <<"verify", "decode", "parse">>
  /\ Len(steps[1].arg) > 0
  /\ steps[3].arg = decode(RawBytes, "koi8-r")

\* The verify hook has thrown.
VerifyThrew == steps # <<>> /\ steps[1].op = "verify" /\ steps[1].error # NoArgs

\* C14: for every error the verify hook throws, the failure surfaced has the
\* thrown error's own status if it has one and 403 otherwise, the thrown
\* error's own type, whatever it is, if it has one and
\* 'entity.verify.failed' otherwise, and the raw bytes as body.
C14_VerifyErrorSurfaced ==
  VerifyThrew =>
    /\ Result.kind = "error"
    /\ Result.status = IF steps[1].error.status # Null THEN steps[1].error.status ELSE 403
    /\ Result.type = IF steps[1].error.type # "none" THEN steps[1].error.type
                     ELSE "entity.verify.failed"
    /\ Result.body = RawBytes

\* The same statement for the thrown errors whose type is not
\* 'encoding.unsupported'.
C14_UnlessEncodingUnsupported ==
  (VerifyThrew /\ steps[1].error.type # "encoding.unsupported") => C14_VerifyErrorSurfaced

\* The parser has called read() (the request was not skipped and passed the
\* parser's own charset assertion) with a charset iconv does not know.
UnsupportedCharsetRead ==
  /\ pc \notin {"start", "tick"}
  /\ parser.withoutCheck \/ (hasBody(headers) /\ shouldParse(parser.type, headers))
  /\ assertCharset(parser.kind, encodingOf(parser.kind, headers, req, opts.defaultCharset)) = NoArgs
  /\ encodingOf(parser.kind, headers, req, opts.defaultCharset) # NoEncoding
  /\ ~encodingExists(encodingOf(parser.kind, headers, req, opts.defaultCharset))

\* C15 as stated: a charset that is not a supported encoding makes the parse
\* fail with CharsetUnsupported (415) before any byte of the body is
\* consumed, and a configured verify hook is never invoked (stated here for
\* the requests whose content-encoding is accepted).
C15_CharsetRejectedFirst ==
  (UnsupportedCharsetRead /\ stream # "none") =>
    /\ pc = "settled"
    /\ IsError(promise, 415, "charset.unsupported")
    /\ Sent("req", history) = 0 /\ Sent("zlib", history) = 0
    /\ steps = <<>>

\* C15 amended: when the charset handed to read() is not a supported
\* encoding and the content-encoding is supported, the read never
\* subscribes to the stream or accumulates a byte and no verify hook is
\* invoked; with a verify hook the parse fails with CharsetUnsupported
\* before getRawBody is called; without one it fails once the request has
\* been drained, with CharsetUnsupported unless one of the pre-checks of the
\* read (length over limit, decoder attached, stream not readable) fails,
\* which is then the failure reported.
C15_CharsetRejectedByRead ==
  (UnsupportedCharsetRead /\ stream # "none") =>
    /\ rs.sync /\ rs.listeners = {} /\ rs.received = 0
    /\ steps = <<>>
    /\ opts.verify =>
         /\ pc = "settled" /\ rs = NoRead
         /\ IsError(promise, 415, "charset.unsupported")
    /\ ~opts.verify =>
         /\ rs # NoRead
         /\ pc = "settled" => ~req.readable
         /\ IF LengthOverLimit THEN IsError(Result, 413, "entity.too.large")
            ELSE IF DecoderAttached THEN IsError(Result, 500, "stream.encoding.set")
            ELSE IF NotReadable THEN IsError(Result, 500, "stream.not.readable")
            ELSE IsError(Result, 415, "charset.unsupported")

\* Without a hook, an unknown charset was rejected after the drain.
C15_Witness ==
  /\ UnsupportedCharsetRead
  /\ ~opts.verify
  /\ pc = "settled"
  /\ IsError(promise, 415, "charset.unsupported")
  /\ Sent("req", history) > 0

\* The request has a body and a content-type the parser's type option
\* matches, and the parser has been called.
CalledWithMatchingBody ==
  /\ pc # "start"
  /\ hasBody(headers)
  /\ shouldParse(parser.type, headers)

\* The charset the `headers` argument declares violates the parser's policy.
DeclaredCharsetRefused ==
  /\ getCharset(headers) # ""
  /\ \/ parser.kind = "json" /\ slice4(getCharset(headers)) # "utf-"
     \/ parser.kind = "urlencoded" /\ getCharset(headers) # "utf-8"

\* C16: for every call parser(stream, headers) whose request has a body and
\* a matching content-type, the JSON parser rejects with CharsetUnsupported
\* (415) every charset declared in `headers` that does not start with
\* 'utf-' and the urlencoded parser every declared charset other than
\* 'utf-8', before any byte is read from the stream.
C16_DeclaredCharsetPolicy ==
  (CalledWithMatchingBody /\ DeclaredCharsetRefused) =>
    /\ pc = "settled"
    /\ IsError(Result, 415, "charset.unsupported")
    /\ RequestUntouched

\* The same statement for the calls whose stream carries the `headers`
\* argument as its own headers.
C16_StreamWithItsHeaders == req.ownHeaders => C16_DeclaredCharsetPolicy

\* A JSON or urlencoded parser that goes on to its charset assertion.
CharsetAsserted ==
  /\ pc # "start"
  /\ parser.kind \in {"json", "urlencoded"}
  /\ parser.withoutCheck \/ (hasBody(headers) /\ shouldParse(parser.type, headers))

\* C17 as stated: for the JSON and urlencoded parsers a request whose body
\* has zero bytes never produces CharsetUnsupported, even when the declared
\* charset violates the parser's charset policy.
C17_EmptyBodyNeverCharset ==
  (CharsetAsserted /\ headers.contentLength = 0) =>
    ~(Result.kind = "error" /\ Result.type = "charset.unsupported")

\* C17 amended: for the JSON and urlencoded parsers a zero-byte body that
\* is read successfully and passes the verify hook resolves to an empty
\* object whatever the content parser would do; the charset is asserted
\* before the body is read, so a request of zero bytes whose charset, as the
\* parser resolves it, violates the charset policy fails with
\* CharsetUnsupported (415) and is not read.
C17_EmptyBodyAfterCharset ==
  CharsetAsserted =>
    /\ (headers.contentLength = 0
        /\ assertCharset(parser.kind, encodingOf(parser.kind, headers, req, opts.defaultCharset)) # NoArgs) =>
         /\ pc = "settled"
         /\ IsError(Result, 415, "charset.unsupported")
         /\ RequestUntouched
    /\ (ReadToItsEnd /\ rs.received = 0 /\ ~VerifyThrew) =>
         /\ pc = "settled"
         /\ promise = EmptyObject

\* A zero-byte JSON body with a declared charset has been read and verified.
C17_Witness ==
  /\ parser.kind = "json"
  /\ headers.contentLength = 0
  /\ headers.charset = "UTF-8"
  /\ opts.verify
  /\ ReadToItsEnd /\ rs.received = 0
  /\ promise = EmptyObject

\* The content-type of the request matches the type option of the parser: it
\* is one of the strings listed, or the custom predicate accepts the headers.
TypeMatches ==
  /\ headers.contentType \in parser.type.types
  /\ parser.type.fn \/ headers.contentType # ""

\* The request has no body or its content-type does not match the type option.
NothingToParse == ~hasBody(headers) \/ ~TypeMatches

\* C18 as stated: whenever the request has no body or its content-type does
\* not match the parser's type option, the called parser has resolved to an
\* empty object and left the stream untouched.
C18_SkippedUntouched ==
  (pc # "start" /\ NothingToParse) =>
    /\ pc = "settled"
    /\ promise = EmptyObject
    /\ RequestUntouched

\* C18 amended: when the request has no body or its content-type does not
\* match the type option, a parser built without the withoutCheck argument
\* resolves to an empty object and leaves the stream untouched: no listener
\* attached, nothing piped, not resumed, no byte consumed.
C18_CheckedSkippedUntouched ==
  (pc # "start" /\ ~parser.withoutCheck /\ NothingToParse) =>
    /\ pc = "settled"
    /\ promise = EmptyObject
    /\ RequestUntouched

\* A checked parser was called for a request with a body of another type.
C18_Witness ==
  /\ pc = "settled"
  /\ ~parser.withoutCheck
  /\ hasBody(headers) /\ headers.contentType # ""
  /\ ~TypeMatches
  /\ promise = EmptyObject
  /\ RequestUntouched

\* Every answer shouldParse(headers) has given is b.
EveryAnswerIs(b) == \A i \in 1..Len(asked) : asked[i] = b

\* C19 as stated: for every parser and header map, every call of
\* shouldParse(headers) returns true iff the request has a body and the
\* content-type matches the type matcher (string, array of strings or custom
\* predicate), so repeated calls agree, and the stream is never read.
C19_ShouldParseIffBodyAndType ==
  /\ EveryAnswerIs(hasBody(headers) /\ TypeMatches)
  /\ asked # <<>> => RequestUntouched /\ pc = "start"

\* C19 amended: shouldParse(headers) is a pure predicate of the headers:
\* with a string or an array of strings as type option it returns true iff
\* the request has a body and the content-type matches; with a custom
\* predicate it returns what the predicate returns for the headers, whether
\* or not the request has a body. Repeated calls with the same headers
\* return the same result and it never reads the stream.
C19_ShouldParsePure ==
  /\ EveryAnswerIs(IF parser.type.fn THEN TypeMatches ELSE hasBody(headers) /\ TypeMatches)
  /\ asked # <<>> => RequestUntouched /\ pc = "start"

\* shouldParse was called twice for a request with a body of a listed type.
C19_Witness ==
  /\ Len(asked) >= 2
  /\ ~parser.type.fn
  /\ hasBody(headers) /\ TypeMatches
  /\ asked[1] /\ asked[2]

\* C20: every parser function a factory returns, whether or not the
\* withoutCheck argument is set, exposes a shouldParse(headers) predicate.
C20_ShouldParseExposed == parser.shouldParse

\* The functions returned for withoutCheck do expose it.
C20_ExposedWithoutCheck == parser.withoutCheck => parser.shouldParse

\* C21: after a parser has been constructed, no alteration of the options
\* object (a property reassigned, a type array changed in place) changes
\* the parser: it is the parser that was built and it works with what it
\* read from the options then, for later and for in-flight requests.
C21_OptionsReadOnce ==
  pc \notin {"new", "thrown"} => parser = built.parser /\ opts = built.opts

\* Nothing but the contents of the type array can change.
C21_UnlessArrayChanged ==
  pc \notin {"new", "thrown"} =>
    /\ opts = built.opts
    /\ [parser EXCEPT !.type = built.parser.type] = built.parser

\* The factory that was called.
Factory == IF pc = "thrown" THEN built.kind ELSE parser.kind

\* The factory has thrown a TypeError.
ThrewTypeError == pc = "thrown" /\ thrown = TypeError

\* No TypeError while the request is handled.
NoTypeErrorAtRequestTime ==
  pc \notin {"new", "thrown"} => thrown # TypeError /\ promise # TypeError /\ caught # TypeError

\* C22 as stated: each factory throws a TypeError when the supplied verify
\* value is neither false nor a function, the urlencoded factory when
\* parameterLimit is non-numeric or not positive, and a parser that was
\* constructed never raises these errors while handling a request.
C22_MisconfigurationThrows ==
  /\ (pc # "new" /\ options.verify \notin {"undefined", "false", "function"}) => ThrewTypeError
  /\ (pc # "new" /\ Factory = "urlencoded" /\ options.parameterLimit \in {NaN, 0}) =>
       ThrewTypeError
  /\ NoTypeErrorAtRequestTime

\* C22 amended: each factory throws a TypeError synchronously when the
\* supplied verify value is truthy and not a function (a falsy value is
\* taken as false: no hook), the urlencoded factory when parameterLimit is
\* non-numeric or not positive; no factory throws otherwise, and a parser
\* that was constructed never raises these errors while handling a request.
C22_TruthyMisconfigurationThrows ==
  /\ pc # "new" =>
       (ThrewTypeError <=>
          \/ options.verify = "string"
          \/ Factory = "urlencoded" /\ options.parameterLimit \in {NaN, 0})
  /\ pc \notin {"new", "thrown"} => opts.verify = (options.verify = "function")
  /\ NoTypeErrorAtRequestTime

\* The urlencoded factory has refused a parameterLimit of 0.
C22_Witness ==
  /\ ThrewTypeError
  /\ Factory = "urlencoded"
  /\ options.parameterLimit = 0
  /\ options.verify = "false"

\* C23: every request-time failure of every parser is delivered as a
\* rejection of the promise the parser returns: calling a parser with
\* (stream, headers) never throws synchronously.
C23_NeverThrowsSynchronously == thrown = NoArgs

\* Every parser but the urlencoded one delivers its failures in the promise.
C23_UnlessUrlencoded == parser.kind # "urlencoded" => thrown = NoArgs

\* The text the content parser was given, and the calls of JSON.parse with
\* the reviver of the caller.
ParsedText == steps[1].arg
RevivedTexts == {steps[i].arg : i \in {j \in 1..Len(steps) : steps[j].op = "JSON.parse(reviver)"}}

\* A JSON body, not empty, whose first non-whitespace character is neither
\* '{' nor '[', has been given to parse.
StrictViolation ==
  /\ parser.kind = "json" /\ steps # <<>>
  /\ ParsedText # <<>>
  /\ firstchar(ParsedText) \notin {Brace, Bracket}

\* C24: in strict mode every non-empty JSON body whose first non-whitespace
\* character is neither '{' nor '[', a body of whitespace included, fails
\* with 400 'entity.parse.failed' and JSON.parse with the reviver is never
\* applied to it; with strict false the same body is handed to JSON.parse.
C24_StrictFirstCharacter ==
  StrictViolation =>
    IF opts.strict
      THEN /\ IsError(Result, 400, "entity.parse.failed")
           /\ Result.body = ParsedText
           /\ RevivedTexts = {}
    ELSE RevivedTexts = {ParsedText}

\* A body of whitespace only has been refused in strict mode.
C24_Witness ==
  /\ StrictViolation /\ opts.strict
  /\ ParsedText = <<Space, LineFeed>>
  /\ IsError(Result, 400, "entity.parse.failed")

\* JSON.parse(body, reviver) was called and threw: the decoder did, or the
\* reviver of the caller.
JsonParseThrew ==
  /\ parser.kind = "json"
  /\ \E i \in 1..Len(steps) : steps[i].op = "JSON.parse(reviver)" /\ steps[i].error # NoArgs

Parameters == Cardinality({i \in 1..Len(ParsedText) : ParsedText[i] = Ampersand}) + 1

\* The calls of the query parser.
QueryParsed == {steps[i].arg : i \in {j \in 1..Len(steps) : steps[j].op \in {"qs.parse", "querystring.parse"}}}

\* C26: for the urlencoded parser, simple or extended, with parameterLimit
\* P >= 1, a non-empty body fails with 413 'parameters.too.many' iff it has
\* more than P parameters; a body of exactly P parameters is accepted; the
\* query parser is not run on a body that is refused.
C26_ParameterLimit ==
  (parser.kind = "urlencoded" /\ steps # <<>> /\ ParsedText # <<>>) =>
    IF Parameters > opts.parameterLimit
      THEN /\ IsError(Result, 413, "parameters.too.many")
           /\ QueryParsed = {}
    ELSE /\ Result = Object(ParsedText)
         /\ QueryParsed = {ParsedText}

\* A body of exactly P parameters was accepted.
C26_Witness ==
  /\ parser.kind = "urlencoded" /\ steps # <<>> /\ ParsedText # <<>>
  /\ opts.parameterLimit = MaxParameters
  /\ Parameters = opts.parameterLimit
  /\ promise = Object(ParsedText)

\* C27: the raw parser never decodes text: for every declared charset,
\* supported, unsupported or absent, no decoder is attached and none is
\* applied, the verify hook receives the bytes and a null encoding, and the
\* value it resolves to is the accumulated byte buffer.
C27_RawNeverDecodes ==
  parser.kind = "raw" =>
    /\ rs.decoder = NoEncoding
    /\ \A i \in 1..Len(steps) :
         /\ steps[i].op # "decode"
         /\ steps[i].op = "verify" => steps[i].encoding = NoEncoding /\ steps[i].arg = RawBytes
    /\ (ReadToItsEnd /\ ~VerifyThrew) => pc = "settled" /\ promise = Value(RawBytes)

\* A raw body that declares an unsupported charset was verified and resolved.
C27_Witness ==
  /\ parser.kind = "raw"
  /\ headers.charset = "utf-9"
  /\ opts.verify /\ steps # <<>>
  /\ rs.received > 0
  /\ pc = "settled" /\ promise = Value(RawBytes)

\* The charset the text parser is to decode with: the one the content-type
\* names, else the defaultCharset option, else utf-8.
TextCharset ==
  IF headers.charset # "" THEN toLowerCase(headers.charset)
  ELSE IF options.defaultCharset # "" THEN options.defaultCharset
  ELSE "utf-8"

\* C28: the text parser decodes with the charset named in the content-type
\* when one is given, otherwise with the defaultCharset option, otherwise
\* with utf-8, and refuses no supported encoding: called for a request it
\* is to parse, it starts the read and, unless the verify hook throws, never
\* fails with 'charset.unsupported'; without a verify hook the decoder of
\* that charset is attached unless the declared length is over the limit, with one the bytes are decoded with it after
\* the hook; a body read to its end resolves to the text in that charset.
C28_TextCharsetResolved ==
  (parser.kind = "text" /\ pc \notin {"new", "thrown", "start"}
     /\ (parser.withoutCheck \/ (hasBody(headers) /\ TypeMatches))) =>
    /\ stream # "none" /\ thrown = NoArgs
    /\ ~VerifyThrew => ~(Result.kind = "error" /\ Result.type = "charset.unsupported")
    /\ IF opts.verify \/ LengthOverLimit THEN rs.decoder = NoEncoding ELSE rs.decoder = TextCharset
    /\ \A i \in 1..Len(steps) : steps[i].op = "verify" => steps[i].encoding = TextCharset
    /\ (ReadToItsEnd /\ ~VerifyThrew) =>
         pc = "settled" /\ promise = Value(decode(RawBytes, TextCharset))

\* A text body without a declared charset was decoded with the defaultCharset.
C28_Witness ==
  /\ parser.kind = "text"
  /\ headers.charset = "" /\ options.defaultCharset = "koi8-r"
  /\ opts.verify /\ rs.received > 0
  /\ pc = "settled" /\ promise = Value(decode(RawBytes, "koi8-r"))

\* The parser of `kind` in the group accepts the content-type of the request.
GroupMatches(kind) ==
  /\ headers.contentType \in built[kind].parser.type.types
  /\ built[kind].parser.type.fn \/ headers.contentType # ""

\* The kind parse() is to select: the first of JSON, text, urlencoded and
\* raw that accepts the request, "none" when none does.
FirstMatch ==
  IF GroupMatches("json") THEN "json"
  ELSE IF GroupMatches("text") THEN "text"
  ELSE IF GroupMatches("urlencoded") THEN "urlencoded"
  ELSE IF GroupMatches("raw") THEN "raw"
  ELSE "none"

\* parse() has been called on a group.
GroupParsed == pc \notin {"new", "thrown", "start"}

\* The kinds parse() has consulted, in order.
Consulted == [i \in 1..Len(asked) |-> asked[i].kind]

\* C29: parse() consults the parsers in the order JSON, text, urlencoded,
\* raw and calls only the first whose shouldParse(headers) is true: without
\* a body no parser is consulted and the result is the default value, or
\* null when none was given; with a body and no match all four have
\* answered false, no stream is read and the result is the default value,
\* or false when none was given; with a match the parsers before it have
\* answered false, those after it were not consulted, and the one read in
\* progress is the read of the match.
C29_FirstMatchInOrder ==
  GroupParsed =>
    IF ~hasBody(headers)
      THEN /\ asked = <<>> /\ parser = NoParser /\ stream = "none" /\ rs = NoRead
           /\ pc = "settled"
           /\ promise = IF defaultValue # Undefined THEN defaultValue ELSE JsNull
    ELSE IF FirstMatch = "none"
      THEN /\ Consulted = <<"json", "text", "urlencoded", "raw">>
           /\ \A i \in 1..Len(asked) : ~asked[i].answer
           /\ parser = NoParser /\ stream = "none" /\ rs = NoRead
           /\ pc = "settled"
           /\ promise = IF defaultValue # Undefined THEN defaultValue ELSE JsFalse
    ELSE /\ Consulted = SubSeq(<<"json", "text", "urlencoded", "raw">>, 1, Len(asked))
         /\ asked # <<>>
         /\ \A i \in 1..Len(asked) : asked[i].answer = (i = Len(asked))
         /\ asked[Len(asked)].kind = FirstMatch
         /\ parser = built[FirstMatch].parser
         /\ stream # "none"

\* A request two parsers of the group accept was read by the JSON parser;
\* and a request none accepts was answered with the default value.
C29_Witness ==
  /\ GroupParsed /\ hasBody(headers)
  /\ GroupMatches("json") /\ GroupMatches("text")
  /\ parser.kind = "json" /\ ReadToItsEnd /\ pc = "settled"
  /\ defaultValue = EmptyObject

\* The options entry of `kind` in the object given to the constructor.
OwnOptions(kind) ==
  CASE kind = "json" -> options.jsonOptions
    [] kind = "text" -> options.textOptions
    [] kind = "urlencoded" -> options.urlencodedOptions
    [] kind = "raw" -> options.rawOptions

\* C30: each parser of the group is configured from the options entry of
\* its own kind: the parser parse() has called is the standalone parser of
\* that kind built from that entry, and reads with that entry's limit.
C30_OwnOptionsPerKind ==
  (GroupParsed /\ parser # NoParser) =>
    /\ opts = readOptions(parser.kind, OwnOptions(parser.kind)).opts
    /\ parser = getParser(parser.kind, readOptions(parser.kind, OwnOptions(parser.kind)).type, TRUE)
    /\ rs # NoRead => rs.limit = opts.limit

\* What the group does instead: every parser is the standalone parser of
\* its kind built from jsonOptions.
C30_JsonOptionsForAll ==
  (GroupParsed /\ parser # NoParser) =>
    /\ opts = readOptions(parser.kind, options.jsonOptions).opts
    /\ parser = getParser(parser.kind, readOptions(parser.kind, options.jsonOptions).type, TRUE)
    /\ rs # NoRead => rs.limit = opts.limit

\* C35: in every state after the completion callback of a read has been
\* invoked, with a value or with a failure, the accumulator is null and
\* none of the five listeners is attached to the stream.
C35_TornDownOnCompletion ==
  rs.calls # <<>> =>
    /\ rs.buffer = NullBuffer
    /\ rs.listeners \cap {"aborted", "close", "data", "end", "error"} = {}

\* The callback was invoked with the body of a read that had accumulated
\* chunks, and the stream has emitted events since.
C35_Witness ==
  /\ rs.calls # <<>> /\ rs.calls[1].kind = "value"
  /\ rs.received > 1
  /\ late >= 1

\* The bytes of the chunks stream s has delivered in the events h, in order.
RECURSIVE ChunksOf(_, _)
ChunksOf(s, h) ==
  IF h = <<>> THEN <<>>
  ELSE (IF Head(h).s = s /\ Head(h).e.type = "data" THEN Head(h).e.chunk ELSE <<>>)
       \o ChunksOf(s, Tail(h))

\* C40: whenever a read succeeds without text decoding, the bytes returned
\* are the concatenation, in arrival order, of the chunks the stream read
\* delivered before its 'end', and as many as the received byte count.
C40_BytesInArrivalOrder ==
  (rs.calls # <<>> /\ rs.calls[1].kind = "value" /\ rs.decoder = NoEncoding) =>
    /\ rs.calls[1].body = ChunksOf(stream, history)
    /\ Len(rs.calls[1].body) = rs.received

\* A body that arrived in two chunks or more was returned.
C40_Witness ==
  /\ rs.calls # <<>> /\ rs.calls[1].kind = "value" /\ rs.decoder = NoEncoding
  /\ Len(rs.buffer.chunks) = 0
  /\ Len(SelectSeq(history, LAMBDA x : x.s = stream /\ x.e.type = "data")) >= 2

\* The positions in the history at which the stream read, subscribed to
\* after the pre-checks, emitted 'error' before any terminal condition of the read (limit exceeded, aborted, end,
\* error) had been reached.
ErrorsBeforeCompletion ==
  {k \in 1..Len(history) :
     /\ ~rs.sync
     /\ history[k].s = stream /\ history[k].e.type = "error"
     /\ Decide(EventsOf(stream, SubSeq(history, 1, k - 1)), 0, <<>>, rs.length, rs.limit) = NoArgs}

\* C34: if the stream being read emits 'error' before the read has
\* completed, the parse fails with a failure of status 400 that wraps the
\* underlying error, whatever that error is.
C34_StreamError400 ==
  \A k \in ErrorsBeforeCompletion :
    /\ pc \in {"settled", "dumping"}
    /\ Result = [history[k].e.error EXCEPT !.status = 400]

\* What the code does: the status is 400 only for an error without a status
\* of its own, and an error tagged 'encoding.unsupported' is replaced by
\* 415 'charset.unsupported'.
C34_UnlessStatusOrEncodingTag ==
  \A k \in ErrorsBeforeCompletion :
    /\ pc \in {"settled", "dumping"}
    /\ Result = IF history[k].e.error.type = "encoding.unsupported"
                  THEN createError(415, "charset.unsupported", Null, Null, Null)
                ELSE IF history[k].e.error.status # Null THEN history[k].e.error
                ELSE [history[k].e.error EXCEPT !.status = 400]

\* The invocations of the verify hook within the call.
Verifications == {i \in 1..Len(steps) : steps[i].op = "verify"}

\* C39: within one parse call the verify hook is invoked at most once, and
\* only after the bounded read has succeeded with the complete body: never
\* before the read has handed over its value, never when the read has ended
\* in a failure (too large, aborted, size invalid, stream error, unsupported
\* encoding) and never when the call failed before the read (content
\* encoding or charset refused).
C39_VerifyOnceAfterRead ==
  /\ Cardinality(Verifications) <= 1
  /\ Verifications # {} =>
       /\ opts.verify
       /\ rs.calls = <<Value(RawBytes)>>
       /\ rs.length # Null => rs.received = rs.length
       /\ rs.limit # Null => rs.received <= rs.limit
  /\ (rs.calls # <<>> /\ rs.calls[1].kind = "error") => Verifications = {}
  /\ (rs = NoRead \/ rs.calls = <<>>) => Verifications = {}

\* The hook was invoked once, on the inflated body of a request read to
\* its end.
C39_Witness ==
  /\ opts.verify
  /\ stream = "zlib"
  /\ Verifications = {1}
  /\ rs.received = 1
  /\ pc = "settled"

\* ---- one request given to a parser with and without a verify hook ----------
\* The events of a request: chunks of one or two bytes and the terminal events.
ScheduledEvents ==
  {[type |-> "data", n |-> 1], [type |-> "data", n |-> 2], [type |-> "end", n |-> 0],
   [type |-> "error", n |-> 0], [type |-> "aborted", n |-> 0], [type |-> "close", n |-> 0]}

Schedules == UNION {[1..n -> ScheduledEvents] : n \in 0..MaxSchedule}

\* A request (headers, stream state, events to come) and a parser built
\* with a verify hook, about to be called.
HookInit ==
  /\ parser \in {f \in Parsers : f.withoutCheck /\ f.type = [fn |-> FALSE, types |-> {"application/json"}]}
  /\ headers \in {h \in RequestHeaders :
                    h.contentEncoding = "" /\ ~h.transferEncoding /\ h.contentLength # 0}
  /\ opts = [inflate |-> TRUE, limit |-> 1, verify |-> TRUE, defaultCharset |-> "utf-8"]
  /\ req \in [readable : BOOLEAN, encodingSet : {FALSE}, flowing : {FALSE}, piped : {FALSE},
              ownHeaders : {TRUE}]
  /\ replay \in [events : Schedules, run : {1}, first : {NoArgs}, steps : {<<>>}]
  /\ reqAtCall = req
  /\ inflater = [created |-> FALSE, destroyed |-> FALSE]
  /\ stream = "none"
  /\ rs = NoRead
  /\ pc = "start"
  /\ promise = Pending
  /\ caught = NoArgs
  /\ history = <<>>
  /\ late = 0
  /\ steps = <<>>
  /\ asked = <<>>
  /\ options = NoOptions
  /\ built = [parser |-> parser, opts |-> opts]
  /\ thrown = NoArgs
  /\ defaultValue = Undefined

\* The event the request delivers next; the events delivered so far are
\* those of the history and those that found no listener.
Delivered == Len(history) + late

\* The request can deliver its next event to the call in progress.
Deliverable ==
  /\ pc \in {"reading", "dumping"}
  /\ stream # "none"
  /\ Delivered < Len(replay.events)
  /\ replay.events[Delivered + 1].type = "data" => req.flowing

\* The request delivers its next event.
Scheduled ==
  /\ Deliverable
  /\ LET e == replay.events[Delivered + 1]
     IN Emit("req", CASE e.type = "data" -> [type |-> "data", chunk |-> Chunk("req", e.n)]
                      [] e.type = "error" -> [type |-> "error", error |-> PlainError]
                      [] OTHER -> [type |-> e.type])

\* The call has its outcome, or the request has nothing more to deliver to it.
RunOver == pc \notin {"start", "tick"} /\ ~Deliverable

\* The same request is given to the same parser built without the hook.
Again ==
  /\ replay.run = 1
  /\ RunOver
  /\ replay' = [replay EXCEPT !.run = 2, !.first = Result, !.steps = steps]
  /\ opts' = [opts EXCEPT !.verify = FALSE]
  /\ req' = reqAtCall
  /\ inflater' = [created |-> FALSE, destroyed |-> FALSE]
  /\ stream' = "none"
  /\ rs' = NoRead
  /\ pc' = "start"
  /\ promise' = Pending
  /\ caught' = NoArgs
  /\ history' = <<>>
  /\ late' = 0
  /\ steps' = <<>>
  /\ thrown' = NoArgs
  /\ UNCHANGED <<parser, headers, reqAtCall, asked, options, built, defaultValue>>

HookNext == Parse \/ NextTick \/ Scheduled \/ Again

HookSpec == HookInit /\ [][HookNext]_vars

\* Both calls are over, the hook of the first has not thrown, and the
\* content parser did the same in both.
BothRunsOver ==
  /\ replay.run = 2
  /\ RunOver
  /\ \A i \in 1..Len(replay.steps) : replay.steps[i].op = "verify" => replay.steps[i].error = NoArgs
  /\ \A i \in 1..Len(replay.steps), j \in 1..Len(steps) :
       (replay.steps[i].op = "parse" /\ steps[j].op = "parse") =>
         replay.steps[i].error = steps[j].error

\* Two outcomes are the same value, or failures of the same kind and status.
SameOutcome(a, b) ==
  /\ a.kind = b.kind
  /\ a.kind = "error" => (a.status = b.status /\ a.type = b.type)
  /\ a.kind \in {"value", "object"} => a = b

ContentLengthTexts == {"absent", "0", "1", "12", "-1", "1.5", "", " 7 ", "bogus", "1kb"}

\* The number JavaScript makes of a header value when isNaN is applied to
\* it (Number(value)): NaN for an absent header and for a text that is not
\* a numeric literal, 0 for the empty text; the texts with a sign, a
\* fraction or blanks around them are numbers. Numbers are kept in tenths,
\* so that 1.5 is the integer 15 and -1 is not Null.
Number(text) ==
  CASE text = "0" -> 0
    [] text = "1" -> 10
    [] text = "12" -> 120
    [] text = "-1" -> 0 - 10
    [] text = "1.5" -> 15
    [] text = "" -> 0
    [] text = " 7 " -> 70
    [] OTHER -> NaN

\* Header maps are given to hasBody and the answers recorded.
HeaderInit ==
  /\ asked = <<>>
  /\ parser = NoParser
  /\ headers = [contentEncoding |-> "", contentLength |-> Null, transferEncoding |-> FALSE,
                contentType |-> "", charset |-> ""]
  /\ opts = NoOptions
  /\ req = [readable |-> TRUE, encodingSet |-> FALSE, flowing |-> FALSE, piped |-> FALSE,
            ownHeaders |-> TRUE]
  /\ reqAtCall = req
  /\ inflater = [created |-> FALSE, destroyed |-> FALSE]
  /\ stream = "none"
  /\ rs = NoRead
  /\ pc = "start"
  /\ promise = Pending
  /\ caught = NoArgs
  /\ history = <<>>
  /\ late = 0
  /\ steps = <<>>
  /\ options = NoOptions
  /\ built = NoOptions
  /\ thrown = NoArgs
  /\ defaultValue = Undefined
  /\ replay = NoArgs

\* hasBody(headers) for a header map with or without transfer-encoding and
\* with any of the content-length texts.
HasBody ==
  /\ Len(asked) < MaxAsked
  /\ \E te \in BOOLEAN, text \in ContentLengthTexts :
       asked' = Append(asked,
                  [transferEncoding |-> te, contentLength |-> text,
                   answer |-> hasBody([transferEncoding |-> te, contentLength |-> Number(text)])])
  /\ UNCHANGED <<parser, headers, opts, req, inflater, stream, rs, pc, promise, caught,
                 reqAtCall, history, late, steps, options, built, thrown, defaultValue, replay>>

HeaderSpec == HeaderInit /\ [][HasBody]_vars

\* The texts that are a non-negative integer in decimal digits.
NonNegativeIntegers == {"0", "1", "12"}

\* C32: hasBody(headers) is true iff a transfer-encoding header is present
\* or the content-length is a valid non-negative integer; for an absent,
\* negative, fractional, empty or non-numeric content-length without
\* transfer-encoding it is false.
C32_HasBodyIffValidLength ==
  \A i \in 1..Len(asked) :
    asked[i].answer = (asked[i].transferEncoding \/ asked[i].contentLength \in NonNegativeIntegers)

\* What the code does: every text JavaScript converts to a number counts as
\* a body, the empty, the negative and the fractional ones included.
C32_HasBodyIffNumber ==
  \A i \in 1..Len(asked) :
    asked[i].answer =
      (asked[i].transferEncoding \/ asked[i].contentLength \notin {"absent", "bogus", "1kb"})

\* ---- the parameterLimit option as a JavaScript number ----------------------
\* A JavaScript number q * 2^31 + r + tenths / 10 with 0 <= r < 2^31, so
\* that the numbers beyond the 32-bit integers can be written down; the
\* other two kinds are Infinity and NaN.
Num(q, r, tenths) == [kind |-> "number", q |-> q, r |-> r, tenths |-> tenths]
InfinityNumber == [kind |-> "Infinity", q |-> 0, r |-> 0, tenths |-> 0]
MaxInt32 == 2147483647

\* The parameterLimit options given to the urlencoded factory: 0.5, 1, 1.9,
\* 2, 2.5, 2^31 - 1, 2^31, 2^32, 2^32 + 1, 2^32 + 2.5, Infinity and NaN.
ParameterLimits ==
  {Num(0, 0, 5), Num(0, 1, 0), Num(0, 1, 9), Num(0, 2, 0), Num(0, 2, 5), Num(0, MaxInt32, 0),
   Num(1, 0, 0), Num(2, 0, 0), Num(2, 1, 0), Num(2, 2, 5), InfinityNumber,
   [kind |-> "NaN", q |-> 0, r |-> 0, tenths |-> 0]}

\* The limit no count is equal to.
Infinity == 0 - 3

\* isFinite(parameterLimit)
isFinite(x) == x.kind = "number"

\* parameterLimit | 0: the fraction is dropped and the integer is taken
\* modulo 2^32 into -2^31 .. 2^31 - 1.
ToInt32(x) == IF x.q % 2 = 0 THEN x.r ELSE (x.r - MaxInt32) - 1

\* isNaN(parameterLimit) || parameterLimit < 1
notPositive(x) == x.kind = "NaN" \/ (x.kind = "number" /\ x.q = 0 /\ x.r = 0)

\* The limit queryparse is closed over: parameterLimit | 0 when the option
\* is finite, else the option.
parameterLimitOf(x) == IF isFinite(x) THEN ToInt32(x) ELSE Infinity

\* The urlencoded factory is about to be called with the parameterLimit
\* option; the body text of a request will be given to its query parser.
LimitInit ==
  /\ parser = getUrlencodedParser(defaultType("urlencoded"), TRUE)
  /\ options \in [kind : {"urlencoded"}, extended : BOOLEAN, parameterLimit : ParameterLimits]
  /\ opts = [inflate |-> TRUE, limit |-> DefaultLimit, verify |-> FALSE, defaultCharset |-> "utf-8",
             strict |-> TRUE, extended |-> options.extended, parameterLimit |-> 1000]
  /\ headers = [contentEncoding |-> "", contentLength |-> Null, transferEncoding |-> TRUE,
                contentType |-> "application/x-www-form-urlencoded", charset |-> ""]
  /\ req = [readable |-> FALSE, encodingSet |-> FALSE, flowing |-> TRUE, piped |-> FALSE,
            ownHeaders |-> TRUE]
  /\ reqAtCall = req
  /\ inflater = [created |-> FALSE, destroyed |-> FALSE]
  /\ stream = "req"
  /\ rs = NoRead
  /\ pc = "new"
  /\ promise = Pending
  /\ caught = NoArgs
  /\ history = <<>>
  /\ late = 0
  /\ steps = <<>>
  /\ asked = <<>>
  /\ built = NoOptions
  /\ thrown = NoArgs
  /\ defaultValue = Undefined
  /\ replay = NoArgs

\* extendedparser(options) and simpleparser(options): a TypeError for a
\* parameterLimit that is no positive number, else the query parser with
\* its limit.
NewQueryParser ==
  /\ pc = "new"
  /\ IF notPositive(options.parameterLimit)
       THEN /\ thrown' = TypeError
            /\ pc' = "thrown"
            /\ UNCHANGED <<opts, built>>
     ELSE /\ opts' = [opts EXCEPT !.parameterLimit = parameterLimitOf(options.parameterLimit)]
          /\ built' = [parser |-> parser, opts |-> opts']
          /\ pc' = "body"
          /\ thrown' = NoArgs
  /\ UNCHANGED <<parser, headers, req, inflater, stream, rs, promise, caught, reqAtCall, history,
                 late, steps, asked, options, defaultValue, replay>>

LimitNext == NewQueryParser \/ ParseText

LimitSpec == LimitInit /\ [][LimitNext]_vars

\* A body text, not empty, has been given to the query parser built with
\* the parameterLimit option.
LimitApplied == pc \notin {"new", "thrown", "body"} /\ steps # <<>> /\ ParsedText # <<>>

\* n is more than floor(x), for a finite x.
MoreThanFloor(n, x) == x.q = 0 /\ n > x.r

\* C33: the parameterLimit is normalised once at construction; with a
\* non-finite value no body is refused for its parameters, and with every
\* finite value P >= 1, however large, a body is refused with 413
\* 'parameters.too.many' iff it has more than floor(P) parameters.
C33_EnforcedAsFloor ==
  LimitApplied =>
    /\ opts = built.opts
    /\ IF options.parameterLimit.kind = "number" /\ MoreThanFloor(Parameters, options.parameterLimit)
         THEN IsError(Result, 413, "parameters.too.many")
       ELSE Result = Object(ParsedText)

\* What the code does: the finite limit is enforced as its 32-bit integer,
\* which is floor(P) below 2^31 only.
C33_EnforcedAsInt32 ==
  LimitApplied =>
    /\ opts = built.opts
    /\ IF /\ options.parameterLimit.kind = "number"
          /\ options.parameterLimit.q = 2
          /\ options.parameterLimit.r >= 1
          /\ Parameters > options.parameterLimit.r
         THEN IsError(Result, 413, "parameters.too.many")
       ELSE IF options.parameterLimit.kind = "number" /\ options.parameterLimit.q # 0
         THEN Result = Object(ParsedText)
       ELSE IF options.parameterLimit.kind = "number" /\ MoreThanFloor(Parameters, options.parameterLimit)
         THEN IsError(Result, 413, "parameters.too.many")
       ELSE Result = Object(ParsedText)

\* A limit below 2^31 with a fraction was enforced as its floor, and an
\* infinite limit refused nothing.
C33_FloorBelowInt32 ==
  /\ LimitApplied
  /\ options.parameterLimit = Num(0, 2, 5)
  /\ Parameters = 3
  /\ IsError(Result, 413, "parameters.too.many")

\* The content parser was given the empty text.
EmptyTextParsed == pc # "body" /\ steps # <<>> /\ steps[1].op = "parse" /\ steps[1].arg = <<>>

\* The steps of the content parsers: the strict check and JSON.parse, the
\* query parsers.
ContentSteps ==
  {i \in 1..Len(steps) : steps[i].op \in {"JSON.parse", "JSON.parse(reviver)", "qs.parse", "querystring.parse"}}

\* C37: for the JSON parser, strict or not, and for the urlencoded parser,
\* simple or extended, a body that was read and decodes to the empty text
\* resolves to an empty object, and neither the JSON decoder, the strict
\* check, the parameter scan nor the query parser is run on it.
C37_EmptyBodyEmptyObject ==
  (parser.kind \in {"json", "urlencoded"} /\ EmptyTextParsed) =>
    /\ pc = "settled"
    /\ promise = EmptyObject
    /\ caught = NoArgs
    /\ steps[1].error = NoArgs
    /\ ContentSteps = {}

\* The strict JSON parser has resolved the empty text.
C37_Witness ==
  /\ parser.kind = "json" /\ opts.strict
  /\ EmptyTextParsed
  /\ promise = EmptyObject

\* The extended urlencoded parser has resolved the empty text.
C37_WitnessExtended ==
  /\ parser.kind = "urlencoded" /\ opts.extended
  /\ EmptyTextParsed
  /\ promise = EmptyObject

\* ---- custom type predicates ---------------------------------------------------
\* A `type` option that is a function of the headers: true for a request
\* without content-type and for plain text.
PredicateType == [fn |-> TRUE, types |-> {"", "text/plain"}]

\* A checked parser that asks the type checking function whether or not the
\* request has a body.
typeChecksAlways(p, h) ==
  IF p.withoutCheck THEN <<>>
  ELSE <<[kind |-> p.kind, answer |-> shouldParse(p.type, h)]>>

\* The calls of shouldParse(headers) a parser makes before it reads: none
\* by a parser built withoutCheck, none by a checked parser when
\* hasBody(headers) is false, else one.
typeChecks(p, h) ==
  IF p.withoutCheck THEN <<>>
  ELSE IF ~hasBody(h) THEN <<>>
  ELSE <<[kind |-> p.kind, answer |-> shouldParse(p.type, h)]>>

\* A checked parser whose type is a predicate, about to be called, or a
\* BodyParserGroup about to be built with such a type.
PredicateInit ==
  \/ /\ ParserInit
     /\ parser.type.fn /\ ~opts.verify /\ req.readable /\ req.ownHeaders
     /\ headers.contentEncoding = "" /\ headers.charset = ""
  \/ /\ options \in [jsonOptions : {[o EXCEPT !.type = PredicateType] : o \in GroupOptionsObjects},
                     textOptions : {o \in GroupOptionsObjects : o.limit = Null /\ o.type = NoType},
                     urlencodedOptions : {o \in GroupOptionsObjects : o.limit = Null /\ o.type = NoType},
                     rawOptions : {o \in GroupOptionsObjects : o.limit = Null /\ o.type = NoType}]
     /\ defaultValue \in DefaultValues
     /\ replay = NoArgs
     /\ parser = NoParser
     /\ opts = NoOptions
     /\ built = NoOptions
     /\ thrown = NoArgs
     /\ headers \in [contentEncoding : {""}, contentLength : {Null, 2}, transferEncoding : {FALSE},
                     contentType : {"", "text/plain", "image/png"}, charset : {""}]
     /\ req = [readable |-> TRUE, encodingSet |-> FALSE, flowing |-> FALSE, piped |-> FALSE,
               ownHeaders |-> TRUE]
     /\ reqAtCall = req
     /\ inflater = [created |-> FALSE, destroyed |-> FALSE]
     /\ stream = "none"
     /\ rs = NoRead
     /\ pc = "new"
     /\ promise = Pending
     /\ caught = NoArgs
     /\ history = <<>>
     /\ late = 0
     /\ steps = <<>>
     /\ asked = <<>>

\* A call of the parser, with the calls of its type checking function.
CheckedParse ==
  /\ options = NoOptions
  /\ pc = "start"
  /\ Call(parser, opts)
  /\ asked' = asked \o typeChecks(parser, headers)
  /\ UNCHANGED <<parser, headers, opts, caught, reqAtCall, history, late, steps, options, built,
                 defaultValue, replay>>

\* parse(req, headers, defaultValue) of the group that was built.
GroupCall == options # NoOptions /\ GroupParse

PredicateNext == CheckedParse \/ NewGroup \/ GroupCall \/ NextTick \/ StreamData \/ StreamEnd

PredicateSpec == PredicateInit /\ [][PredicateNext]_vars

\* The request has neither a content-length nor a transfer-encoding header.
WithoutBody == headers.contentLength = Null /\ ~headers.transferEncoding

\* The type the parser, or the parsers of the group, were given is a predicate.
CustomPredicate ==
  IF options = NoOptions THEN parser.type.fn ELSE options.jsonOptions.type.fn

\* C36: a custom type predicate is never invoked for a request without a
\* body: the checked parser and BodyParserGroup.parse test hasBody(headers)
\* first and return their no-body result ({} ; the default value or null)
\* without calling the predicate and without reading.
C36_PredicateNotInvokedWithoutBody ==
  (CustomPredicate /\ WithoutBody /\ pc \notin {"new", "start", "thrown"}) =>
    /\ asked = <<>>
    /\ pc = "settled"
    /\ stream = "none" /\ rs = NoRead
    /\ promise = IF options = NoOptions THEN EmptyObject
                 ELSE IF defaultValue # Undefined THEN defaultValue ELSE JsNull

\* A checked parser whose predicate accepts the headers was called without
\* a body and has returned {}.
C36_Witness ==
  /\ options = NoOptions /\ parser.type.fn /\ ~parser.withoutCheck
  /\ WithoutBody /\ headers.contentType \in parser.type.types
  /\ pc = "settled" /\ promise = EmptyObject /\ asked = <<>>

\* A group whose predicate accepts the headers was called without a body
\* and has returned null.
C36_WitnessGroup ==
  /\ options # NoOptions /\ options.jsonOptions.type.fn
  /\ WithoutBody /\ headers.contentType \in options.jsonOptions.type.types
  /\ pc = "settled" /\ promise = JsNull /\ asked = <<>>

\* With a body the predicate is invoked.
C36_WitnessInvoked ==
  /\ CustomPredicate /\ ~WithoutBody /\ asked # <<>> /\ asked[1].answer

\* ---- two requests in flight through one parser -------------------------------
\* What a call of the parser owns: its request and headers, the locals of
\* read() (stream, the promise and what its catch block holds) and of
\* readStream (complete, sync, received, buffer, decoder and the listeners
\* closed over them), and the events its request has still to deliver.
CallState ==
  [headers |-> headers, req |-> req, reqAtCall |-> reqAtCall, inflater |-> inflater,
   stream |-> stream, rs |-> rs, pc |-> pc, promise |-> promise, caught |-> caught,
   history |-> history, late |-> late, steps |-> steps, thrown |-> thrown,
   events |-> replay.events]

\* A readStream whose byte counter is declared outside the function: the
\* call that runs next goes on with the count of the call that ran last.
resumedSharedCounter(other, current) ==
  [other EXCEPT !.rs = [@ EXCEPT !.received = current.rs.received]]

\* The state a call goes on with after another call has run: its own,
\* every variable of read() and readStream being local to the call.
resumed(other, current) == other

\* The events of the two requests: a chunk of one byte, 'end', 'aborted'.
TwoSchedules ==
  UNION {[1..n -> {[type |-> "data", n |-> 1], [type |-> "end", n |-> 0], [type |-> "aborted", n |-> 0]}] :
           n \in 0..MaxSchedule}

\* The call of a request that has not been made yet.
NewCall(h, events) ==
  [headers |-> h,
   req |-> [readable |-> TRUE, encodingSet |-> FALSE, flowing |-> FALSE, piped |-> FALSE,
            ownHeaders |-> TRUE],
   reqAtCall |-> [readable |-> TRUE, encodingSet |-> FALSE, flowing |-> FALSE, piped |-> FALSE,
                  ownHeaders |-> TRUE],
   inflater |-> [created |-> FALSE, destroyed |-> FALSE],
   stream |-> "none", rs |-> NoRead, pc |-> "start", promise |-> Pending, caught |-> NoArgs,
   history |-> <<>>, late |-> 0, steps |-> <<>>, thrown |-> NoArgs, events |-> events]

\* The variables of a call become those of `c`.
Resume(c) ==
  /\ headers' = c.headers
  /\ req' = c.req
  /\ reqAtCall' = c.reqAtCall
  /\ inflater' = c.inflater
  /\ stream' = c.stream
  /\ rs' = c.rs
  /\ pc' = c.pc
  /\ promise' = c.promise
  /\ caught' = c.caught
  /\ history' = c.history
  /\ late' = c.late
  /\ steps' = c.steps
  /\ thrown' = c.thrown

\* Two requests, each with the events it will deliver, and one parser that
\* reads bytes or text with a limit of one byte. Each request is first given
\* to the parser alone; then both are, their events in any order.
TwoInit ==
  /\ parser \in {getRawParser(defaultType("raw"), TRUE), getTextParser(defaultType("text"), TRUE)}
  /\ opts = [inflate |-> TRUE, limit |-> 1, verify |-> FALSE, defaultCharset |-> "utf-8"]
  /\ \E h1 \in {Null}, h2 \in {1, 2}, e1 \in TwoSchedules, e2 \in TwoSchedules :
       LET c1 == NewCall([contentEncoding |-> "", contentLength |-> h1, transferEncoding |-> FALSE,
                          contentType |-> "", charset |-> ""], e1)
           c2 == NewCall([contentEncoding |-> "", contentLength |-> h2, transferEncoding |-> FALSE,
                          contentType |-> "", charset |-> ""], e2)
       IN /\ replay = [events |-> e1, phase |-> "alone", focus |-> 1, calls |-> <<c1, c2>>,
                       other |-> c2, alone |-> <<>>]
          /\ headers = c1.headers
  /\ req = replay.calls[1].req
  /\ reqAtCall = req
  /\ inflater = [created |-> FALSE, destroyed |-> FALSE]
  /\ stream = "none"
  /\ rs = NoRead
  /\ pc = "start"
  /\ promise = Pending
  /\ caught = NoArgs
  /\ history = <<>>
  /\ late = 0
  /\ steps = <<>>
  /\ asked = <<>>
  /\ options = NoOptions
  /\ built = [parser |-> parser, opts |-> opts]
  /\ thrown = NoArgs
  /\ defaultValue = Undefined

\* What a call has come to: its outcome, the bytes it has counted and kept,
\* and what it has called back with.
Outcome(c) ==
  [result |-> IF c.thrown # NoArgs THEN c.thrown ELSE IF c.pc = "dumping" THEN c.caught ELSE c.promise,
   settled |-> c.pc = "settled",
   received |-> c.rs.received, buffer |-> c.rs.buffer, calls |-> c.rs.calls]

\* A request given alone has delivered its events: the next request is
\* given alone, and after the second both are given to the parser.
AloneOver ==
  /\ replay.phase = "alone"
  /\ RunOver
  /\ IF replay.focus = 1
       THEN /\ Resume(replay.calls[2])
            /\ replay' = [replay EXCEPT !.focus = 2, !.events = replay.calls[2].events,
                                        !.other = replay.calls[1],
                                        !.alone = <<Outcome(CallState)>>]
     ELSE /\ Resume(replay.calls[1])
          /\ replay' = [replay EXCEPT !.focus = 1, !.events = replay.calls[1].events,
                                      !.other = replay.calls[2], !.phase = "together",
                                      !.alone = Append(@, Outcome(CallState))]
  /\ UNCHANGED <<parser, opts, asked, options, built, defaultValue>>

\* The event loop turns to the other call: the next macrotask is one of its
\* request's events, its tick, or its being called.
Switch ==
  /\ replay.phase = "together"
  /\ Resume(resumed(replay.other, CallState))
  /\ replay' = [replay EXCEPT !.focus = 3 - @, !.events = replay.other.events,
                              !.other = CallState]
  /\ UNCHANGED <<parser, opts, asked, options, built, defaultValue>>

TwoNext == Parse \/ NextTick \/ Scheduled \/ AloneOver \/ Switch

TwoSpec == TwoInit /\ [][TwoNext]_vars

\* The call in focus is one of two in flight and has had all its events.
TogetherOver == replay.phase = "together" /\ RunOver

====
